---- MODULE Spec2Model ----
(***************************************************************************)
(* Execution record store of link-foundation/start (rust/src/lib/           *)
(* execution_store.rs): the file lock (LockManager), the primary            *)
(* collection file (executions.lino) and the operations of ExecutionStore,  *)
(* run by independent OS processes that share one directory.                *)
(*                                                                          *)
(* One step of the model is one file-system call of one process (exists +   *)
(* read, remove_file, create_new, write_all, the open-with-truncate and the *)
(* write of fs::write) together with the process-local code around it.      *)
(***************************************************************************)
EXTENDS Integers, Sequences, FiniteSets, TLC

(***************************************************************************)
(* Program constants.                                                       *)
(***************************************************************************)
LOCK_TIMEOUT_MS == 30000
LOCK_STALE_MS == 60000
DEFAULT_MAX_AGE_MS == 24 * 60 * 60 * 1000
OS == "linux"

(***************************************************************************)
(* Bounds of the model.                                                     *)
(***************************************************************************)
\* the OS processes (a process id is its own pid)
Procs == {1, 2}
\* the uuids records are created with
UUIDs == {"A", "B"}
\* one step of the clock: long enough to end a pending acquire and to make
\* a lock file older than LOCK_STALE_MS
TickMs == LOCK_STALE_MS + LOCK_TIMEOUT_MS
\* number of clock steps
MaxTicks == 1
\* number of processes that may crash
MaxCrashes == 1
\* number of store calls made in all
MaxCalls == 3

VARIABLES
    now,            \* wall clock / Instant, in ms
    alive,          \* alive[p]: process p exists (kill(p, 0) == 0)
    lock_file,      \* executions.lock
    lino_db,        \* executions.lino, the primary file
    pc,             \* position of each process inside its current call
    op,             \* the call a process is in, or made last
    record,         \* the caller's in-memory ExecutionRecord
    arg,            \* argument of the call (uuid of delete, CleanupOptions)
    start,          \* Instant::now() taken at the top of acquire
    lock_acquired,  \* LockManager.lock_acquired of the call's lock manager
    records,        \* the call's local collection (records / current_records)
    stale_records,  \* cleanup_stale: the records flagged by the lock-free scan
    ret,            \* what the last call returned
    calls,          \* number of store calls made so far
    wrote,          \* the current call has opened the primary file for writing
    use_links,      \* ExecutionStore.use_links of each process's store
    links_db,       \* executions.links, the secondary store: the uuids in it
    clink,          \* how the last clink run of each process ended
    codec,          \* lino-objects-codec at work: what it was given and what
                    \* it has made of it
    run,            \* run_direct and the signal handler of one start process
    \* history of the run, read by no operation:
    write_image,    \* the collection in the file before the write in progress,
                    \* and the collection that write is putting there
    was_executed,   \* uuids whose stored record has had status executed
    last_saved,     \* per uuid, the record of the last save that returned Ok
    misbuilt        \* save was given a record whose status, exit_code and
                    \* end_time disagree

history == <<write_image, was_executed, last_saved, misbuilt>>

links == <<use_links, links_db, clink>>

vars == <<now, alive, lock_file, lino_db, pc, op, record, arg, start,
          lock_acquired, records, stale_records, ret, calls, wrote,
          use_links, links_db, clink, codec, run,
          write_image, was_executed, last_saved, misbuilt>>

(***************************************************************************)
(* Option<T> is a sequence of length at most one.                           *)
(***************************************************************************)
None == <<>>
Some(x) == <<x>>

(***************************************************************************)
(* ExecutionRecord, ExecutionRecord::new / with_options / complete.         *)
(* command, log_path, working_directory, shell and options are carried      *)
(* through every operation unchanged and are left out.                      *)
(***************************************************************************)
NoRecord == [uuid |-> "", pid |-> None, status |-> "executing",
             exit_code |-> None, start_time |-> 0, end_time |-> None,
             platform |-> ""]

new(p, t) ==
    [uuid |-> "", pid |-> None, status |-> "executing", exit_code |-> None,
     start_time |-> t, end_time |-> None, platform |-> OS]

\* every Some(..) field of the options overrides the field of new()
with_options(o, p, t) ==
    LET r == new(p, t) IN
    [uuid       |-> IF o.uuid # None THEN o.uuid[1] ELSE r.uuid,
     pid        |-> IF o.pid # None THEN Some(o.pid[1]) ELSE r.pid,
     status     |-> IF o.status # None THEN o.status[1] ELSE r.status,
     exit_code  |-> IF o.exit_code # None THEN Some(o.exit_code[1]) ELSE r.exit_code,
     start_time |-> IF o.start_time # None THEN o.start_time[1] ELSE r.start_time,
     end_time   |-> IF o.end_time # None THEN Some(o.end_time[1]) ELSE r.end_time,
     platform   |-> IF o.platform # None THEN o.platform[1] ELSE r.platform]

\* complete that leaves end_time unset
complete_without_end_time(r, exit_code, t) ==
    [r EXCEPT !.status = "executed", !.exit_code = Some(exit_code)]

complete(r, exit_code, t) ==
    [r EXCEPT !.status = "executed", !.exit_code = Some(exit_code),
              !.end_time = Some(t)]

(***************************************************************************)
(* ExecutionRecord::to_json followed by lino_objects_codec::encode, and     *)
(* decode followed by ExecutionRecord::from_json.  The text of one record   *)
(* is an (object ...) link whose camelCase keys carry tagged values:        *)
(* (null), (int <decimal>) or (str <base64>).  decode dispatches on the     *)
(* tag; from_json reads (null) into None for the Option fields.             *)
(***************************************************************************)
EncodeOptInt(v) == IF v = None THEN <<"null">> ELSE <<"int", v[1]>>

DecodeOptInt(l) == IF l[1] = "null" THEN None ELSE Some(l[2])

to_json(r) ==
    [uuid      |-> <<"str", r.uuid>>,
     pid       |-> EncodeOptInt(r.pid),
     status    |-> <<"str", r.status>>,
     exitCode  |-> EncodeOptInt(r.exit_code),
     startTime |-> <<"str", r.start_time>>,
     endTime   |-> IF r.end_time = None THEN <<"null">> ELSE <<"str", r.end_time[1]>>,
     platform  |-> <<"str", r.platform>>]

from_json(j) ==
    [uuid       |-> j.uuid[2],
     pid        |-> DecodeOptInt(j.pid),
     status     |-> j.status[2],
     exit_code  |-> DecodeOptInt(j.exitCode),
     start_time |-> j.startTime[2],
     end_time   |-> IF j.endTime[1] = "null" THEN None ELSE Some(j.endTime[2]),
     platform   |-> j.platform[2]]

\* encode(&Value::Array(data)): the (array ...) link of the records' objects
encode(recs) == [i \in 1..Len(recs) |-> to_json(recs[i])]

(***************************************************************************)
(* The primary file.  st is "absent", "truncated" (fs::write has opened it  *)
(* with O_TRUNC and the text is not, or not wholly, in it yet) or "full"    *)
(* (the whole text of items).                                               *)
(***************************************************************************)
NoFile == [st |-> "absent", items |-> <<>>]
TruncatedFile == [st |-> "truncated", items |-> <<>>]
FullFile(recs) == [st |-> "full", items |-> encode(recs)]

\* a read that gives what it could make of a cut-off text: one record of
\* default fields
read_lino_records_partial(f) ==
    IF f.st = "full"
    THEN [i \in 1..Len(f.items) |-> from_json(f.items[i])]
    ELSE IF f.st = "truncated" THEN <<NoRecord>> ELSE <<>>

\* missing file, blank text and a decode error all give the empty vector;
\* a strict prefix of the text never closes the outer link, so the parser
\* fails with "Unexpected end of input" or "Expected identifier"
read_lino_records(f) ==
    IF f.st = "full"
    THEN [i \in 1..Len(f.items) |-> from_json(f.items[i])]
    ELSE <<>>

(***************************************************************************)
(* Helpers on collections.                                                  *)
(***************************************************************************)
\* records.iter().position(|r| r.uuid == uuid), 0 when there is none
position(recs, uuid) ==
    IF \E i \in 1..Len(recs) : recs[i].uuid = uuid
    THEN CHOOSE i \in 1..Len(recs) :
            /\ recs[i].uuid = uuid
            /\ \A j \in 1..(i - 1) : recs[j].uuid # uuid
    ELSE 0

\* records.iter().filter(pred).cloned().collect()
RECURSIVE filter(_, _)
filter(recs, keep) ==
    IF recs = <<>> THEN <<>>
    ELSE IF Head(recs) \in keep
         THEN <<Head(recs)>> \o filter(Tail(recs), keep)
         ELSE filter(Tail(recs), keep)

Range(s) == {s[i] : i \in 1..Len(s)}

Uuids(recs) == {recs[i].uuid : i \in 1..Len(recs)}

(***************************************************************************)
(* The lock file.  exists: the path is there; owner: the process whose      *)
(* create_new made this file (its identity); written: write_all has put     *)
(* the JSON text {pid, timestamp, hostname} into it, before that the file   *)
(* is empty and does not parse.  hostname plays no part in any decision.    *)
(***************************************************************************)
NoLock == [exists |-> FALSE, owner |-> 0, written |-> FALSE, pid |-> 0,
           timestamp |-> 0]

\* fs::read_to_string + serde_json::from_str; None when either fails
read_lock_file(f) ==
    IF f.exists /\ f.written
    THEN Some([pid |-> f.pid, timestamp |-> f.timestamp])
    ELSE None

\* a judgement that takes every lock for stale
is_lock_stale_at_any_age(lock_data, t, live) == TRUE

\* older than LOCK_STALE_MS, or kill(pid, 0) != 0
is_lock_stale(lock_data, t, live) ==
    \/ t - lock_data.timestamp > LOCK_STALE_MS
    \/ ~live[lock_data.pid]

\* a release that leaves the lock file where it is
release_forgotten(p, f) == f

\* LockManager::release, also run by Drop: remove_file of the lock path,
\* whichever file is there, when this manager's lock_acquired is set
release(p, f) == IF lock_acquired[p] THEN NoLock ELSE f

(***************************************************************************)
(* Results of calls.                                                        *)
(***************************************************************************)
NoRet == [res |-> "none", recs |-> <<>>, cleaned |-> 0, errors |-> <<>>]
Ret(res) == [NoRet EXCEPT !.res = res]
RetRecs(res, recs) == [NoRet EXCEPT !.res = res, !.recs = recs]

LockErr == "Failed to acquire lock for database write"
CleanupLockErr == "Failed to acquire lock for cleanup"
IoErr == "io error"

Mutating == {"save", "delete", "clear", "cleanup_stale"}

\* the argument of a call: the uuid of get / delete, the CleanupOptions
NoArg == [uuid |-> "", max_age_ms |-> None, dry_run |-> FALSE]

\* the codec has been given nothing
NoCodec == [given |-> "nothing", step |-> "start", value |-> <<>>,
            text |-> <<>>, result |-> <<>>]

\* no start process is running a command
NoRun == [pc |-> "none", hpc |-> "none", record |-> NoRecord,
          registered |-> None, mutex |-> "free", sig |-> 0,
          at_arrival |-> FALSE, signals |-> 0, initial |-> "none",
          completion |-> "none", command |-> "none", command_exit |-> None,
          handler_saves |-> 0, marked |-> None, exit_code |-> None]

\* no write of the primary file is in progress
NoImage == [before |-> <<>>, after |-> <<>>]

(***************************************************************************)
(* The state after construction: an empty directory, no call made.          *)
(***************************************************************************)
Init ==
    /\ now = 0
    /\ alive = [p \in Procs |-> TRUE]
    /\ lock_file = NoLock
    /\ lino_db = NoFile
    /\ pc = [p \in Procs |-> "idle"]
    /\ op = [p \in Procs |-> "none"]
    /\ record = [p \in Procs |-> NoRecord]
    /\ arg = [p \in Procs |-> NoArg]
    /\ start = [p \in Procs |-> 0]
    /\ lock_acquired = [p \in Procs |-> FALSE]
    /\ records = [p \in Procs |-> <<>>]
    /\ stale_records = [p \in Procs |-> <<>>]
    /\ ret = [p \in Procs |-> NoRet]
    /\ calls = 0
    /\ wrote = [p \in Procs |-> FALSE]
    /\ use_links = [p \in Procs |-> FALSE]
    /\ links_db = {}
    /\ clink = [p \in Procs |-> "none"]
    /\ codec = NoCodec
    /\ run = NoRun
    /\ write_image = NoImage
    /\ was_executed = {}
    /\ last_saved = [u \in UUIDs |-> None]
    /\ misbuilt = FALSE

(***************************************************************************)
(* The environment: time passes, a process dies.                            *)
(***************************************************************************)
\* a process that will read the clock again
ReadsClock(p) ==
    /\ alive[p]
    /\ \/ pc[p] \in {"acquire_first", "acquire", "write_lock"}
       \/ pc[p] = "locked" /\ op[p] = "cleanup_stale"
       \/ pc[p] = "idle" /\ calls < MaxCalls

Tick ==
    /\ now < MaxTicks * TickMs
    /\ \E p \in Procs : ReadsClock(p)
    /\ now' = now + TickMs
    /\ UNCHANGED <<alive, lock_file, lino_db, pc, op, record, arg, start,
                   lock_acquired, records, stale_records, ret, calls, wrote>>
    /\ UNCHANGED history
    /\ UNCHANGED links
    /\ UNCHANGED codec
    /\ UNCHANGED run

\* the process is killed where it stands: nothing of its call runs any more,
\* no Drop, no release; its memory is gone.  (A process killed while it only
\* waits for the lock is a process killed before its call.)
Crash(p) ==
    /\ alive[p]
    /\ op[p] # "none"
    /\ pc[p] \notin {"acquire_first", "acquire", "remove_stale", "create_lock"}
    /\ Cardinality({q \in Procs : ~alive[q]}) < MaxCrashes
    /\ alive' = [alive EXCEPT ![p] = FALSE]
    /\ record' = [record EXCEPT ![p] = NoRecord]
    /\ arg' = [arg EXCEPT ![p] = NoArg]
    /\ start' = [start EXCEPT ![p] = 0]
    /\ records' = [records EXCEPT ![p] = <<>>]
    /\ stale_records' = [stale_records EXCEPT ![p] = <<>>]
    /\ ret' = [ret EXCEPT ![p] = NoRet]
    /\ UNCHANGED <<now, lock_file, lino_db, pc, op, lock_acquired, calls, wrote>>
    /\ UNCHANGED history
    /\ UNCHANGED links
    /\ UNCHANGED codec
    /\ UNCHANGED run

\* uuids are interchangeable too: "B" comes into play after "A"
UuidInputs ==
    IF \E p \in Procs : record[p].uuid = "A" \/ arg[p].uuid = "A"
    THEN UUIDs ELSE {"A"}

(***************************************************************************)
(* The caller builds and completes its record.                              *)
(***************************************************************************)
\* the options run_direct passes (uuid and this process's pid), and options
\* that set status, exit_code and end_time as the tests do
RecordOptions(p) ==
    {[uuid |-> Some(u), pid |-> Some(p), status |-> s[1], exit_code |-> s[2],
      start_time |-> None, end_time |-> s[3], platform |-> None] :
        u \in UuidInputs,
        s \in {<<None, None, None>>,
               <<Some("executed"), None, None>>}}

\* options that set status, exit_code and end_time together or not at all
ConsistentOptions(o) ==
    (o.status = Some("executed")) <=> (o.exit_code # None /\ o.end_time # None)

ExitCodes == {0}

\* the records a caller passes to save: one it has just built, or the one
\* it saved before, completed now (run_direct, lines 794-804 and 970-972)
SaveInputs(p) ==
    {with_options(o, p, now) : o \in RecordOptions(p)}
    \cup {complete(record[p], c, now) :
            c \in IF record[p] # NoRecord /\ record[p].status = "executing"
                  THEN ExitCodes ELSE {}}

(***************************************************************************)
(* A call begins.  Every mutating call makes a fresh LockManager            *)
(* (lock_acquired = false) and enters acquire, which takes its start        *)
(* Instant.                                                                 *)
(***************************************************************************)
\* what every call does on entry; calls are counted to bound the run
Begin(p, o, a) ==
    /\ alive[p] /\ pc[p] = "idle"
    /\ calls < MaxCalls
    /\ op' = [op EXCEPT ![p] = o]
    /\ arg' = [arg EXCEPT ![p] = a]
    /\ calls' = calls + 1
    /\ wrote' = [wrote EXCEPT ![p] = FALSE]

\* save(&record), lines 503-508
Save(p, r) ==
    /\ Begin(p, "save", NoArg)
    /\ record' = [record EXCEPT ![p] = r]
    /\ pc' = [pc EXCEPT ![p] = "acquire_first"]
    /\ start' = [start EXCEPT ![p] = now]
    /\ ret' = [ret EXCEPT ![p] = NoRet]
    /\ misbuilt' = (misbuilt \/ \E o \in RecordOptions(p) :
                                    ~ConsistentOptions(o) /\ r = with_options(o, p, now))
    /\ UNCHANGED <<now, alive, lock_file, lino_db, lock_acquired,
                   records, stale_records>>
    /\ UNCHANGED <<write_image, was_executed, last_saved>>
    /\ UNCHANGED links
    /\ UNCHANGED codec
    /\ UNCHANGED run

\* delete(uuid), lines 681-686
Delete(p, uuid) ==
    /\ Begin(p, "delete", [NoArg EXCEPT !.uuid = uuid])
    /\ pc' = [pc EXCEPT ![p] = "acquire_first"]
    /\ start' = [start EXCEPT ![p] = now]
    /\ ret' = [ret EXCEPT ![p] = NoRet]
    /\ UNCHANGED <<now, alive, lock_file, lino_db, record, lock_acquired,
                   records, stale_records>>
    /\ UNCHANGED history
    /\ UNCHANGED links
    /\ UNCHANGED codec
    /\ UNCHANGED run

\* clear(), lines 707-712
Clear(p) ==
    /\ Begin(p, "clear", NoArg)
    /\ pc' = [pc EXCEPT ![p] = "acquire_first"]
    /\ start' = [start EXCEPT ![p] = now]
    /\ ret' = [ret EXCEPT ![p] = NoRet]
    /\ UNCHANGED <<now, alive, lock_file, lino_db, record, lock_acquired,
                   records, stale_records>>
    /\ UNCHANGED history
    /\ UNCHANGED links
    /\ UNCHANGED codec
    /\ UNCHANGED run

(***************************************************************************)
(* LockManager::acquire, one step per file-system call.                     *)
(***************************************************************************)
\* what the call returns when acquire has returned false
TimeoutRet(p) ==
    IF op[p] = "cleanup_stale"
    THEN [res |-> "CleanupResult", recs |-> stale_records[p], cleaned |-> 0,
          errors |-> <<CleanupLockErr>>]
    ELSE [res |-> "Err", recs |-> <<>>, cleaned |-> 0, errors |-> <<LockErr>>]

\* a call that ignores the false acquire returns and goes on
AcquireTimeout_ignored(p) ==
    /\ alive[p] /\ pc[p] = "acquire"
    /\ ~(now - start[p] < LOCK_TIMEOUT_MS)
    /\ pc' = [pc EXCEPT ![p] = IF op[p] = "clear" THEN "write_open" ELSE "locked"]
    /\ start' = [start EXCEPT ![p] = 0]
    /\ UNCHANGED <<now, alive, lock_file, lino_db, op, record, arg,
                   lock_acquired, records, stale_records, ret, calls, wrote>>
    /\ UNCHANGED history
    /\ UNCHANGED links
    /\ UNCHANGED codec
    /\ UNCHANGED run

\* an acquire that has no timeout: the loop goes on
AcquireTimeout_never(p) ==
    /\ alive[p] /\ pc[p] = "acquire"
    /\ ~(now - start[p] < LOCK_TIMEOUT_MS)
    /\ UNCHANGED vars

\* the loop condition fails: acquire returns false and the call reports it
AcquireTimeout(p) ==
    /\ alive[p] /\ pc[p] = "acquire"
    /\ ~(now - start[p] < LOCK_TIMEOUT_MS)
    /\ ret' = [ret EXCEPT ![p] = TimeoutRet(p)]
    /\ pc' = [pc EXCEPT ![p] = "idle"]
    /\ start' = [start EXCEPT ![p] = 0]
    /\ stale_records' = [stale_records EXCEPT ![p] = <<>>]
    /\ UNCHANGED <<now, alive, lock_file, lino_db, op, record, arg,
                   lock_acquired, records, calls, wrote>>
    /\ UNCHANGED history
    /\ UNCHANGED links
    /\ UNCHANGED codec
    /\ UNCHANGED run

\* the loop condition holds: on entry, where start was taken an instant ago
\* ("acquire_first"), and later ("acquire") while the time is not up
InLoop(p) ==
    \/ pc[p] = "acquire_first"
    \/ pc[p] = "acquire" /\ now - start[p] < LOCK_TIMEOUT_MS

\* the first iteration finds a lock file that does not read as stale, or
\* does not read at all: create_new fails and the thread sleeps.  (Later
\* iterations of this kind change nothing.)
AcquireBusy(p) ==
    /\ alive[p] /\ pc[p] = "acquire_first"
    /\ lock_file.exists
    /\ LET lock_data == read_lock_file(lock_file) IN
       ~(lock_data # None /\ is_lock_stale(lock_data[1], now, alive))
    /\ pc' = [pc EXCEPT ![p] = "acquire"]
    /\ UNCHANGED <<now, alive, lock_file, lino_db, op, record, arg, start,
                   lock_acquired, records, stale_records, ret, calls, wrote>>
    /\ UNCHANGED history
    /\ UNCHANGED links
    /\ UNCHANGED codec
    /\ UNCHANGED run

\* one iteration that finds nothing to remove: exists + read_lock_file +
\* is_lock_stale say "no lock that reads as stale", then create_new.  The
\* judgement has no effect of its own, so both calls are one step; when
\* create_new fails the thread sleeps and the loop continues (no change).
AcquireTry(p) ==
    /\ alive[p] /\ InLoop(p)
    /\ LET lock_data == read_lock_file(lock_file) IN
       ~(lock_data # None /\ is_lock_stale(lock_data[1], now, alive))
    /\ ~lock_file.exists
    /\ lock_file' = [NoLock EXCEPT !.exists = TRUE, !.owner = p]
    /\ pc' = [pc EXCEPT ![p] = "write_lock"]
    /\ start' = [start EXCEPT ![p] = 0]
    /\ UNCHANGED <<now, alive, lino_db, op, record, arg,
                   lock_acquired, records, stale_records, ret, calls, wrote>>
    /\ UNCHANGED history
    /\ UNCHANGED links
    /\ UNCHANGED codec
    /\ UNCHANGED run

\* one iteration that reads the lock file and judges it stale
AcquireCheck(p) ==
    /\ alive[p] /\ InLoop(p)
    /\ LET lock_data == read_lock_file(lock_file) IN
       lock_data # None /\ is_lock_stale(lock_data[1], now, alive)
    /\ pc' = [pc EXCEPT ![p] = "remove_stale"]
    /\ UNCHANGED <<now, alive, lock_file, lino_db, op, record, arg, start,
                   lock_acquired, records, stale_records, ret, calls, wrote>>
    /\ UNCHANGED history
    /\ UNCHANGED links
    /\ UNCHANGED codec
    /\ UNCHANGED run

\* fs::remove_file(&self.lock_file_path): removes the file that is at the
\* path now, not necessarily the one that was judged
AcquireRemove(p) ==
    /\ alive[p] /\ pc[p] = "remove_stale"
    /\ lock_file' = NoLock
    /\ pc' = [pc EXCEPT ![p] = "create_lock"]
    /\ UNCHANGED <<now, alive, lino_db, op, record, arg, start,
                   lock_acquired, records, stale_records, ret, calls, wrote>>
    /\ UNCHANGED history
    /\ UNCHANGED links
    /\ UNCHANGED codec
    /\ UNCHANGED run

\* OpenOptions::new().write(true).create_new(true).open(..); on Err the
\* thread sleeps and the loop continues
AcquireCreate(p) ==
    /\ alive[p] /\ pc[p] = "create_lock"
    /\ IF ~lock_file.exists
       THEN /\ lock_file' = [NoLock EXCEPT !.exists = TRUE, !.owner = p]
            /\ pc' = [pc EXCEPT ![p] = "write_lock"]
            /\ start' = [start EXCEPT ![p] = 0]
       ELSE /\ lock_file' = lock_file
            /\ pc' = [pc EXCEPT ![p] = "acquire"]
            /\ start' = start
    /\ UNCHANGED <<now, alive, lino_db, op, record, arg,
                   lock_acquired, records, stale_records, ret, calls, wrote>>
    /\ UNCHANGED history
    /\ UNCHANGED links
    /\ UNCHANGED codec
    /\ UNCHANGED run

\* file.write_all(lock_data) into the file this process created (which may
\* have been unlinked meanwhile), lock_acquired = true, return true
AcquireWrite(p) ==
    /\ alive[p] /\ pc[p] = "write_lock"
    /\ lock_file' =
         IF lock_file.exists /\ lock_file.owner = p /\ ~lock_file.written
         THEN [lock_file EXCEPT !.written = TRUE, !.pid = p, !.timestamp = now]
         ELSE lock_file
    /\ lock_acquired' = [lock_acquired EXCEPT ![p] = TRUE]
    /\ pc' = [pc EXCEPT ![p] = IF op[p] = "clear" THEN "write_open" ELSE "locked"]
    /\ UNCHANGED <<now, alive, lino_db, op, record, arg, start,
                   records, stale_records, ret, calls, wrote>>
    /\ UNCHANGED history
    /\ UNCHANGED links
    /\ UNCHANGED codec
    /\ UNCHANGED run

(***************************************************************************)
(* cleanup_stale: the lock-free scan, lines 579-639.                        *)
(***************************************************************************)
\* a u64: the number n, or 2^64 - n (n >= 1) when from_top
U64(n) == [from_top |-> FALSE, n |-> n]

U64_MAX == [from_top |-> TRUE, n |-> 1]

\* `max_age_ms as i64`, line 622: the same 64 bits read in two's complement
as_i64(v) == IF v.from_top THEN 0 - v.n ELSE v.n

\* the age test alone, with no probe of the owner
is_stale_unprobed(r, max_age_ms, t, live) ==
    t - r.start_time > as_i64(max_age_ms)

\* the owner's pid is probed when the record is of this platform; otherwise,
\* or when the owner is alive, the age decides
is_stale(r, max_age_ms, t, live) ==
    \/ r.pid # None /\ r.platform = OS /\ ~live[r.pid[1]]
    \/ t - r.start_time > as_i64(max_age_ms)

StaleRecords(recs, max_age_ms, t, live) ==
    filter(recs, {r \in Range(recs) :
                    r.status = "executing" /\ is_stale(r, max_age_ms, t, live)})

CleanupInputs ==
    {[uuid |-> "", max_age_ms |-> m, dry_run |-> d] :
        m \in {None, Some(U64(LOCK_TIMEOUT_MS))}, d \in BOOLEAN}

\* options.max_age_ms.unwrap_or(24 h), line 580
max_age_of(options) ==
    IF options.max_age_ms = None THEN U64(DEFAULT_MAX_AGE_MS)
    ELSE options.max_age_ms[1]

\* a dry run that leaves cleaned at its initial 0
dry_run_cleaned_untold(stale_recs) == 0

\* else if dry_run { result.cleaned = stale_records.len() }, lines 673-675
dry_run_cleaned(stale_recs) == Len(stale_recs)

CleanupStale(p, options) ==
    /\ Begin(p, "cleanup_stale", options)
    /\ LET max_age_ms == max_age_of(options)
           stale == StaleRecords(read_lino_records(lino_db), max_age_ms, now, alive)
       IN  IF ~options.dry_run /\ stale # <<>>
           THEN /\ pc' = [pc EXCEPT ![p] = "acquire_first"]
                /\ start' = [start EXCEPT ![p] = now]
                /\ stale_records' = [stale_records EXCEPT ![p] = stale]
                /\ ret' = [ret EXCEPT ![p] = NoRet]
           ELSE /\ pc' = pc
                /\ start' = start
                /\ stale_records' = stale_records
                /\ ret' = [ret EXCEPT ![p] =
                             [res |-> "CleanupResult", recs |-> stale,
                              cleaned |-> IF options.dry_run
                                          THEN dry_run_cleaned(stale) ELSE 0,
                              errors |-> <<>>]]
    /\ UNCHANGED <<now, alive, lock_file, lino_db, record, lock_acquired, records>>
    /\ UNCHANGED history
    /\ UNCHANGED links
    /\ UNCHANGED codec
    /\ UNCHANGED run

(***************************************************************************)
(* Under the lock: read the collection and change it in memory.             *)
(***************************************************************************)
\* save that pushes without looking for the uuid
upsert_always_pushes(recs, r) == Append(recs, r)

\* save that takes the old record of that uuid out and pushes the new one
upsert_moves_to_end(recs, r) ==
    Append(filter(recs, {x \in Range(recs) : x.uuid # r.uuid}), r)

\* replace the record of that uuid in place, or push at the end
upsert(recs, r) ==
    LET idx == position(recs, r.uuid) IN
    IF idx # 0 THEN [recs EXCEPT ![idx] = r] ELSE Append(recs, r)

\* save, lines 510-522
SaveLocked(p) ==
    /\ alive[p] /\ pc[p] = "locked" /\ op[p] = "save"
    /\ records' = [records EXCEPT ![p] = upsert(read_lino_records(lino_db), record[p])]
    /\ pc' = [pc EXCEPT ![p] = "write_open"]
    /\ UNCHANGED <<now, alive, lock_file, lino_db, op, record, arg, start,
                   lock_acquired, stale_records, ret, calls, wrote>>
    /\ UNCHANGED history
    /\ UNCHANGED links
    /\ UNCHANGED codec
    /\ UNCHANGED run

\* delete that rewrites and reports found without comparing the lengths
DeleteLocked_found_whatever(p) ==
    /\ alive[p] /\ pc[p] = "locked" /\ op[p] = "delete"
    /\ LET recs == read_lino_records(lino_db) IN
       records' = [records EXCEPT ![p] =
                     filter(recs, {r \in Range(recs) : r.uuid # arg[p].uuid})]
    /\ pc' = [pc EXCEPT ![p] = "write_open"]
    /\ UNCHANGED <<now, alive, lock_file, lino_db, op, record, arg, start,
                   lock_acquired, stale_records, ret, calls, wrote>>
    /\ UNCHANGED history
    /\ UNCHANGED links
    /\ UNCHANGED codec
    /\ UNCHANGED run

\* delete, lines 688-693
DeleteLocked(p) ==
    /\ alive[p] /\ pc[p] = "locked" /\ op[p] = "delete"
    /\ LET recs == read_lino_records(lino_db)
           filtered == filter(recs, {r \in Range(recs) : r.uuid # arg[p].uuid})
       IN  IF Len(filtered) = Len(recs)
           THEN /\ ret' = [ret EXCEPT ![p] = Ret("Ok(false)")]
                /\ pc' = [pc EXCEPT ![p] = "return"]
                /\ records' = records
           ELSE /\ ret' = ret
                /\ pc' = [pc EXCEPT ![p] = "write_open"]
                /\ records' = [records EXCEPT ![p] = filtered]
    /\ UNCHANGED <<now, alive, lock_file, lino_db, op, record, arg, start,
                   lock_acquired, stale_records, calls, wrote>>
    /\ UNCHANGED history
    /\ UNCHANGED links
    /\ UNCHANGED codec
    /\ UNCHANGED run

\* the forced transition of one record, lines 661-663
force_executed(r, t) ==
    [r EXCEPT !.status = "executed", !.exit_code = Some(-1), !.end_time = Some(t)]

\* a rewrite that puts back the flagged records it no longer finds
apply_stale_puts_back(current_records, stale, t) ==
    [i \in 1..Len(current_records) |->
        IF \E k \in 1..Len(stale) : position(current_records, stale[k].uuid) = i
        THEN force_executed(current_records[i], t)
        ELSE current_records[i]]
    \o [k \in 1..Len(filter(stale, {r \in Range(stale) :
                                       position(current_records, r.uuid) = 0})) |->
          force_executed(filter(stale, {r \in Range(stale) :
                                         position(current_records, r.uuid) = 0})[k], t)]

\* lines 655-666: every flagged uuid that is found in the re-read collection
\* is forced, whatever the record there says now
apply_stale(current_records, stale, t) ==
    [i \in 1..Len(current_records) |->
        IF \E k \in 1..Len(stale) : position(current_records, stale[k].uuid) = i
        THEN force_executed(current_records[i], t)
        ELSE current_records[i]]

count_cleaned(current_records, stale) ==
    Cardinality({k \in 1..Len(stale) : position(current_records, stale[k].uuid) # 0})

\* cleanup_stale, lines 651-666
CleanupLocked(p) ==
    /\ alive[p] /\ pc[p] = "locked" /\ op[p] = "cleanup_stale"
    /\ LET current_records == read_lino_records(lino_db) IN
       /\ records' = [records EXCEPT ![p] =
                        apply_stale(current_records, stale_records[p], now)]
       /\ ret' = [ret EXCEPT ![p] =
                    [NoRet EXCEPT !.cleaned =
                        count_cleaned(current_records, stale_records[p])]]
    /\ pc' = [pc EXCEPT ![p] = "write_open"]
    /\ UNCHANGED <<now, alive, lock_file, lino_db, op, record, arg, start,
                   lock_acquired, stale_records, calls, wrote>>
    /\ UNCHANGED history
    /\ UNCHANGED links
    /\ UNCHANGED codec
    /\ UNCHANGED run

(***************************************************************************)
(* write_lino_records: fs::write(&self.lino_db_path, content) opens the     *)
(* primary file itself with create + truncate and then writes the text      *)
(* into it; there is no temporary file and no rename.                       *)
(***************************************************************************)
\* the uuids whose stored record the call of p sets, forces or removes
Touched(p) ==
    CASE op[p] = "save" -> {record[p].uuid}
      [] op[p] = "delete" -> {arg[p].uuid}
      [] op[p] = "clear" -> UUIDs
      [] op[p] = "cleanup_stale" -> Uuids(stale_records[p])
      [] OTHER -> {}

\* last_saved once the write of p has come to its end
Saved(p, ok) ==
    [u \in UUIDs |->
        IF u \notin Touched(p) THEN last_saved[u]
        ELSE IF op[p] = "save" /\ ok THEN Some(record[p])
        ELSE IF op[p] = "cleanup_stale" /\ ok THEN last_saved[u]
        ELSE None]

OkRet(p) ==
    IF op[p] = "cleanup_stale"
    THEN [res |-> "CleanupResult", recs |-> stale_records[p],
          cleaned |-> ret[p].cleaned, errors |-> <<>>]
    ELSE IF op[p] = "delete" THEN Ret("Ok(true)") ELSE Ret("Ok")

\* `?` in save / delete / clear; errors.push in cleanup_stale, lines 668-669
IoErrRet(p) ==
    IF op[p] = "cleanup_stale"
    THEN [res |-> "CleanupResult", recs |-> stale_records[p],
          cleaned |-> ret[p].cleaned, errors |-> <<"Cleanup error">>]
    ELSE [res |-> "Err", recs |-> <<>>, cleaned |-> 0, errors |-> <<IoErr>>]

\* the open succeeds: the old text is gone
WriteOpen(p) ==
    /\ alive[p] /\ pc[p] = "write_open"
    /\ lino_db' = TruncatedFile
    /\ wrote' = [wrote EXCEPT ![p] = TRUE]
    /\ pc' = [pc EXCEPT ![p] = "write_data"]
    /\ write_image' =
         [before |-> IF lino_db.st = "truncated" THEN write_image.before
                     ELSE read_lino_records(lino_db),
          after  |-> records[p]]
    /\ UNCHANGED <<now, alive, lock_file, op, record, arg, start,
                   lock_acquired, records, stale_records, ret, calls>>
    /\ UNCHANGED <<was_executed, last_saved, misbuilt>>
    /\ UNCHANGED links
    /\ UNCHANGED codec
    /\ UNCHANGED run

\* the open fails (permissions, no space): the file is as it was
WriteOpenFail(p) ==
    /\ alive[p] /\ pc[p] = "write_open"
    /\ ret' = [ret EXCEPT ![p] = IoErrRet(p)]
    /\ pc' = [pc EXCEPT ![p] = "return"]
    /\ UNCHANGED <<now, alive, lock_file, lino_db, op, record, arg, start,
                   lock_acquired, records, stale_records, calls, wrote>>
    /\ UNCHANGED history
    /\ UNCHANGED links
    /\ UNCHANGED codec
    /\ UNCHANGED run

\* write_all has put the whole text
WriteAll(p) ==
    /\ alive[p] /\ pc[p] = "write_data"
    /\ lino_db' = FullFile(records[p])
    /\ ret' = [ret EXCEPT ![p] = OkRet(p)]
    /\ pc' = [pc EXCEPT ![p] = "return"]
    /\ was_executed' =
         {u \in Uuids(records[p]) :
            \/ u \in was_executed
            \/ records[p][position(records[p], u)].status = "executed"}
    /\ last_saved' = Saved(p, TRUE)
    /\ UNCHANGED <<now, alive, lock_file, op, record, arg, start,
                   lock_acquired, records, stale_records, calls, wrote>>
    /\ UNCHANGED <<write_image, misbuilt>>
    /\ UNCHANGED links
    /\ UNCHANGED codec
    /\ UNCHANGED run

\* write_all fails: the file stays as far as it was written
WriteFail(p) ==
    /\ alive[p] /\ pc[p] = "write_data"
    /\ ret' = [ret EXCEPT ![p] = IoErrRet(p)]
    /\ pc' = [pc EXCEPT ![p] = "return"]
    /\ last_saved' = Saved(p, FALSE)
    /\ UNCHANGED <<now, alive, lock_file, lino_db, op, record, arg, start,
                   lock_acquired, records, stale_records, calls, wrote>>
    /\ UNCHANGED <<write_image, was_executed, misbuilt>>
    /\ UNCHANGED links
    /\ UNCHANGED codec
    /\ UNCHANGED run

\* the call returns; the LockManager goes out of scope and Drop releases
\* save, delete and clear go on to the secondary store once the primary
\* file is written (lines 528-531, 698-701, 716-719); every earlier return
\* (`?`, Ok(false)) and cleanup_stale leave it alone
CallsLinks(p) ==
    /\ use_links[p]
    /\ op[p] \in {"save", "delete", "clear"}
    /\ ret[p].res \in {"Ok", "Ok(true)"}

\* write_links_record, delete_links_record, remove_file of the links file:
\* the secondary store after the call, which went well (ok) or did not
links_call(p, db, ok) ==
    IF ~ok THEN db
    ELSE CASE op[p] = "save" -> db \cup {record[p].uuid}
           [] op[p] = "delete" -> db \ {arg[p].uuid}
           [] OTHER -> {}

\* a call that hands the failure of the secondary store to its caller
links_ret_raised(r, ok) ==
    IF ok THEN r
    ELSE [res |-> "Err", recs |-> <<>>, cleaned |-> 0, errors |-> <<"Clink error">>]

\* the bool of write_links_record / delete_links_record and the Result of
\* remove_file are dropped: the call returns what it was going to return
links_ret(r, ok) == r

\* the end of a call: the secondary store where the call has one, then the
\* return, on which the LockManager is dropped
Return(p) ==
    /\ alive[p] /\ pc[p] = "return"
    /\ \E ok \in BOOLEAN :
          IF CallsLinks(p)
          THEN /\ links_db' = links_call(p, links_db, ok)
               /\ clink' = [clink EXCEPT ![p] = IF ok THEN "ok" ELSE "failed"]
               /\ ret' = [ret EXCEPT ![p] = links_ret(ret[p], ok)]
          ELSE /\ links_db' = links_db
               /\ clink' = [clink EXCEPT ![p] = "none"]
               /\ ret' = ret
    /\ lock_file' = release(p, lock_file)
    /\ lock_acquired' = [lock_acquired EXCEPT ![p] = FALSE]
    /\ pc' = [pc EXCEPT ![p] = "idle"]
    /\ records' = [records EXCEPT ![p] = <<>>]
    /\ stale_records' = [stale_records EXCEPT ![p] = <<>>]
    /\ write_image' = IF wrote[p] THEN NoImage ELSE write_image
    /\ UNCHANGED <<now, alive, lino_db, op, record, arg, start, calls, wrote,
                   use_links, codec, run>>
    /\ UNCHANGED <<was_executed, last_saved, misbuilt>>

(***************************************************************************)
(* The lock-free reads.                                                     *)
(***************************************************************************)
\* get(uuid), lines 537-541
get(f, uuid) ==
    LET recs == read_lino_records(f)
        idx == position(recs, uuid)
    IN  IF idx = 0 THEN None ELSE Some(recs[idx])

Get(p, uuid) ==
    /\ Begin(p, "get", [NoArg EXCEPT !.uuid = uuid])
    /\ ret' = [ret EXCEPT ![p] = RetRecs("get", get(lino_db, uuid))]
    /\ UNCHANGED <<now, alive, lock_file, lino_db, pc, record, start,
                   lock_acquired, records, stale_records>>
    /\ UNCHANGED history
    /\ UNCHANGED links
    /\ UNCHANGED codec
    /\ UNCHANGED run

\* get_all(), lines 544-546
GetAll(p) ==
    /\ Begin(p, "get_all", NoArg)
    /\ ret' = [ret EXCEPT ![p] = RetRecs("get_all", read_lino_records(lino_db))]
    /\ UNCHANGED <<now, alive, lock_file, lino_db, pc, record, start,
                   lock_acquired, records, stale_records>>
    /\ UNCHANGED history
    /\ UNCHANGED links
    /\ UNCHANGED codec
    /\ UNCHANGED run

\* the number of records with that property
count(recs, kept) == Len(filter(recs, {r \in Range(recs) : kept[r]}))

\* get_stats that counts every executed record as successful
get_stats_all_successful(f) ==
    LET recs == read_lino_records(f) IN
    [total      |-> Len(recs),
     executing  |-> count(recs, [r \in Range(recs) |-> r.status = "executing"]),
     executed   |-> count(recs, [r \in Range(recs) |-> r.status = "executed"]),
     successful |-> count(recs, [r \in Range(recs) |-> r.status = "executed"]),
     failed     |-> count(recs, [r \in Range(recs) |->
                        /\ r.status = "executed"
                        /\ IF r.exit_code = None THEN FALSE
                           ELSE r.exit_code[1] # 0])]

\* get_stats(), lines 787-819: the counts of ExecutionStats
get_stats(f) ==
    LET recs == read_lino_records(f) IN
    [total      |-> Len(recs),
     executing  |-> count(recs, [r \in Range(recs) |-> r.status = "executing"]),
     executed   |-> count(recs, [r \in Range(recs) |-> r.status = "executed"]),
     successful |-> count(recs, [r \in Range(recs) |->
                        r.status = "executed" /\ r.exit_code = Some(0)]),
     failed     |-> count(recs, [r \in Range(recs) |->
                        /\ r.status = "executed"
                        /\ IF r.exit_code = None THEN FALSE
                           ELSE r.exit_code[1] # 0])]

GetStats(p) ==
    /\ Begin(p, "get_stats", NoArg)
    /\ ret' = [ret EXCEPT ![p] = RetRecs("get_stats", <<get_stats(lino_db)>>)]
    /\ UNCHANGED <<now, alive, lock_file, lino_db, pc, record, start,
                   lock_acquired, records, stale_records>>
    /\ UNCHANGED history
    /\ UNCHANGED links
    /\ UNCHANGED codec
    /\ UNCHANGED run

(***************************************************************************)
(* The specification.                                                       *)
(***************************************************************************)
Next ==
    \/ Tick
    \/ \E p \in Procs : Crash(p)
    \/ \E p \in Procs : \E r \in SaveInputs(p) : Save(p, r)
    \/ \E p \in Procs : \E u \in UuidInputs : Delete(p, u)
    \/ \E p \in Procs : Clear(p)
    \/ \E p \in Procs : \E o \in CleanupInputs : CleanupStale(p, o)
    \/ \E p \in Procs : \E u \in UuidInputs : Get(p, u)
    \/ \E p \in Procs : GetAll(p)
    \/ \E p \in Procs : AcquireTimeout(p)
    \/ \E p \in Procs : AcquireBusy(p)
    \/ \E p \in Procs : AcquireTry(p)
    \/ \E p \in Procs : AcquireCheck(p)
    \/ \E p \in Procs : AcquireRemove(p)
    \/ \E p \in Procs : AcquireCreate(p)
    \/ \E p \in Procs : AcquireWrite(p)
    \/ \E p \in Procs : SaveLocked(p)
    \/ \E p \in Procs : DeleteLocked(p)
    \/ \E p \in Procs : CleanupLocked(p)
    \/ \E p \in Procs : WriteOpen(p)
    \/ \E p \in Procs : WriteOpenFail(p)
    \/ \E p \in Procs : WriteAll(p)
    \/ \E p \in Procs : WriteFail(p)
    \/ \E p \in Procs : Return(p)

Spec == Init /\ [][Next]_vars

\* calls made one after another, as a single caller or a test makes them: a
\* call begins when no live process is inside one
SeqStep == (calls' # calls) => \A q \in Procs : alive[q] => pc[q] = "idle"

NextSeq == Next /\ SeqStep

SpecSeq == Init /\ [][NextSeq]_vars

(***************************************************************************)
(* The lock manager on its own: every call is clear(), the mutating call    *)
(* that does nothing but take the lock, write and release.  A live process  *)
(* keeps running and time keeps passing.                                    *)
(***************************************************************************)
\* the steps of process p inside a call
Step(p) ==
    \/ AcquireTimeout(p)
    \/ AcquireBusy(p)
    \/ AcquireTry(p)
    \/ AcquireCheck(p)
    \/ AcquireRemove(p)
    \/ AcquireCreate(p)
    \/ AcquireWrite(p)
    \/ WriteOpen(p)
    \/ WriteOpenFail(p)
    \/ WriteAll(p)
    \/ WriteFail(p)
    \/ Return(p)

NextLock ==
    \/ Tick
    \/ \E p \in Procs : Crash(p)
    \/ \E p \in Procs : Clear(p)
    \/ \E p \in Procs : Step(p)

\* the scheduler runs every live process again and again, and the clock
\* goes on as long as the model lets it
SpecLock ==
    /\ Init /\ [][NextLock]_vars
    /\ WF_vars(Tick)
    /\ \A p \in Procs : WF_vars(Step(p))

(***************************************************************************)
(* Properties.                                                              *)
(***************************************************************************)
\* the collection a lock-free read returns in this state
Stored == read_lino_records(lino_db)

\* the data-model invariant of one record: status is executed exactly when
\* exit_code and end_time are present
Consistent(r) ==
    (r.status = "executed") <=> (r.exit_code # None /\ r.end_time # None)

\* the instants of the model's clock
Instants == {k * TickMs : k \in 0..MaxTicks}

\* r as cleanup_stale leaves it when it forces it
Forced(r) == {force_executed(r, t) : t \in Instants}

\* C1: at most one process holds the lock at a time: once one acquire has
\* returned true, no other acquire returns true until the holder released.
C1_MutualExclusion ==
    Cardinality({p \in Procs : alive[p] /\ lock_acquired[p]}) <= 1

\* C2: no lost update: when two processes are inside save at the same time
\* for records of different uuids and both have written and are about to
\* return Ok, the collection holds both records.
C2_NoLostUpdate ==
    \A p, q \in Procs :
        ( /\ p # q
          /\ alive[p] /\ op[p] = "save" /\ pc[p] = "return" /\ ret[p].res = "Ok"
          /\ alive[q] /\ op[q] = "save" /\ pc[q] = "return" /\ ret[q].res = "Ok"
          /\ record[p].uuid # record[q].uuid )
        => {record[p].uuid, record[q].uuid} \subseteq Uuids(Stored)

\* C3: while a write of save, delete, clear or cleanup_stale is in progress,
\* a lock-free read returns the whole collection from before that write or
\* the whole collection after it, never an empty or partial one.
C3_ReadSeesBeforeOrAfter ==
    (\E p \in Procs : alive[p] /\ pc[p] = "write_data")
    => Stored \in {write_image.before, write_image.after}

\* C4: when a writer has crashed during its write, get_all returns the
\* collection from before the operation or the one after it: the primary
\* file parses in full and the records committed earlier are not lost.
C4_CrashKeepsCollection ==
    \A p \in Procs :
        (~alive[p] /\ pc[p] = "write_data" /\ write_image # NoImage)
        => Stored \in {write_image.before, write_image.after}

\* C5: executed is terminal: a uuid whose stored record has been executed
\* is never stored as executing again by saves of records built with new
\* and complete, by cleanup_stale or by both.
C5_ExecutedIsTerminal ==
    ~misbuilt =>
        \A u \in was_executed :
            get(lino_db, u) # None => get(lino_db, u)[1].status = "executed"

\* C6: the locked rewrite of cleanup_stale forces only records that are
\* executing in the collection it re-reads: a record that is executed there
\* (its owner completed it after the scan) keeps exit_code and end_time.
C6_CleanupForcesOnlyExecuting ==
    [][\A p \in Procs :
          CleanupLocked(p) =>
            \A i \in 1..Len(Stored) :
                Stored[i].status = "executed" => records'[p][i] = Stored[i]]_vars

UniqueUuids(recs) ==
    \A i, j \in 1..Len(recs) : recs[i].uuid = recs[j].uuid => i = j

\* C8, as claimed: after calls made one after another, get_all holds at most
\* one record per uuid and that record holds the values saved last.
C8_LatestValues ==
    /\ UniqueUuids(Stored)
    /\ \A u \in UUIDs :
          (last_saved[u] # None /\ get(lino_db, u) # None)
          => get(lino_db, u) = last_saved[u]

\* C8, amended: after calls made one after another, get_all holds at most
\* one record per uuid, and that record holds the values saved last, or
\* those values with status executed, exit code -1 and the sweep time as end
\* time when cleanup_stale has forced the record since.
C8_LatestValuesOrForced ==
    /\ UniqueUuids(Stored)
    /\ \A u \in UUIDs :
          (last_saved[u] # None /\ get(lino_db, u) # None)
          => get(lino_db, u)[1] \in {last_saved[u][1]} \cup Forced(last_saved[u][1])

\* a save has just replaced the stored record of its uuid by other values
C8_Witness ==
    \E p \in Procs :
        /\ alive[p] /\ op[p] = "save" /\ pc[p] = "return" /\ ret[p].res = "Ok"
        /\ position(write_image.before, record[p].uuid) # 0
        /\ write_image.before[position(write_image.before, record[p].uuid)] # record[p]
        /\ Len(Stored) = Len(write_image.before)
        /\ get(lino_db, record[p].uuid) = Some(record[p])

\* no call that sets, forces or removes the record of u is writing
Untouched(u) ==
    \A q \in Procs : pc[q] = "write_data" => alive[q] /\ u \notin Touched(q)

\* C9: read-your-writes: after save(r) has returned Ok, get(r.uuid) returns
\* r until another call that touches that uuid writes (a cleanup_stale that
\* touched it leaves r forced).
C9_ReadYourWrites ==
    \A u \in UUIDs :
        (last_saved[u] # None /\ Untouched(u))
        => /\ get(lino_db, u) # None
           /\ get(lino_db, u)[1] \in {last_saved[u][1]} \cup Forced(last_saved[u][1])

\* what a mutating call reports when it could not take the lock
ExplicitFailure(o, r) ==
    IF o = "cleanup_stale"
    THEN CleanupLockErr \in Range(r.errors) /\ r.cleaned = 0
    ELSE r.res = "Err" /\ LockErr \in Range(r.errors)

\* C10: a mutating call whose acquire runs out of time returns an explicit
\* failure and has not written the primary file; and the primary file is
\* only ever changed by a process whose acquire has returned true.
C10_TimeoutFailsWithoutWrite ==
    [][\A p \in Procs :
          /\ ( /\ pc[p] = "acquire"
               /\ ~(now - start[p] < LOCK_TIMEOUT_MS)
               /\ pc'[p] # "acquire" )
             => /\ pc'[p] = "idle"
                /\ ExplicitFailure(op[p], ret'[p])
                /\ ~wrote'[p]
                /\ lino_db' = lino_db
          /\ (pc[p] \in {"write_open", "write_data"} /\ pc'[p] # pc[p] /\ alive'[p])
             => lock_acquired[p]]_vars

\* a mutating call has returned the lock failure and has written nothing
C10_Witness ==
    \E p \in Procs :
        /\ pc[p] = "idle" /\ op[p] \in Mutating
        /\ ExplicitFailure(op[p], ret[p])
        /\ ~wrote[p]
        /\ lock_file.exists

\* process p is inside LockManager::acquire
InAcquire(p) ==
    pc[p] \in {"acquire_first", "acquire", "remove_stale", "create_lock", "write_lock"}

\* the last instant of the model's clock: an acquire entered then sees no
\* time pass
LastInstant == MaxTicks * TickMs

\* C11: acquire always terminates (an acquire entered before the clock's
\* last instant leaves the loop); when its time is up it returns false; and
\* it reports success only after its own create_new has made the lock file
\* at a path where there was none.
C11_AcquireTerminates ==
    /\ \A p \in Procs :
          (alive[p] /\ InAcquire(p) /\ start[p] < LastInstant /\ pc[p] # "write_lock")
          ~> (~alive[p] \/ ~InAcquire(p))
    /\ \A p \in Procs : (alive[p] /\ pc[p] = "write_lock") ~> (~alive[p] \/ ~InAcquire(p))
    /\ [][\A p \in Procs :
            /\ (pc[p] = "acquire" /\ ~(now - start[p] < LOCK_TIMEOUT_MS) /\ pc'[p] # pc[p])
               => (pc'[p] = "idle" /\ ~lock_acquired'[p] /\ lock_file' = lock_file)
            /\ (lock_acquired'[p] /\ ~lock_acquired[p]) => pc[p] = "write_lock"
            /\ (pc'[p] = "write_lock" /\ pc[p] # "write_lock")
               => (~lock_file.exists /\ lock_file'.exists /\ lock_file'.owner = p)]_vars

\* an acquire has returned false while a live holder keeps a lock file in
\* place that does not read as stale
C11_Witness ==
    \E p, q \in Procs :
        /\ p # q
        /\ alive[p] /\ pc[p] = "idle" /\ op[p] = "clear"
        /\ LockErr \in Range(ret[p].errors)
        /\ alive[q] /\ lock_acquired[q]
        /\ lock_file.exists /\ lock_file.written /\ lock_file.owner = q
        /\ ~is_lock_stale(read_lock_file(lock_file)[1], now, alive)

\* C12: release on every exit path: a live process that has returned from
\* its call (normally, by delete's not-found return, or with the error of a
\* failed write) has no lock file of its own left at the lock path, and its
\* lock manager no longer says it holds the lock.
C12_ReleasedOnReturn ==
    \A p \in Procs :
        (alive[p] /\ pc[p] = "idle")
        => /\ ~(lock_file.exists /\ lock_file.owner = p)
           /\ ~lock_acquired[p]

\* one process has returned Ok(false) from delete, the other the error of a
\* failed write, and no lock file is left
C12_Witness ==
    \E p, q \in Procs :
        /\ alive[p] /\ pc[p] = "idle" /\ op[p] = "delete" /\ ret[p].res = "Ok(false)"
        /\ alive[q] /\ pc[q] = "idle" /\ op[q] \in Mutating /\ wrote[q]
        /\ IoErr \in Range(ret[q].errors)
        /\ ~lock_file.exists

\* C13: a lock left behind by a holder that crashed is reclaimable: an
\* iteration of acquire that finds a lock file whose creator no longer
\* exists, or that is older than LOCK_STALE_MS, does not leave it in place
\* and go to sleep.
C13_CrashedLockReclaimed ==
    [][\A p \in Procs :
          (pc[p] = "acquire_first" /\ pc'[p] = "acquire")
          => ~( /\ lock_file.exists
                /\ ~alive[lock_file.owner]
                /\ lock_file' = lock_file )]_vars

\* C14: an unparseable primary file reads as the empty collection and the
\* store stays usable: get_all returns the empty list, a save(r) made then
\* writes the collection of r alone, and when it returns Ok get(r.uuid)
\* returns r.
C14_UnparseableReadsEmpty ==
    [][\A p \in Procs :
          /\ (lino_db.st = "truncated" /\ GetAll(p))
             => ret'[p] = RetRecs("get_all", <<>>)
          /\ (lino_db.st = "truncated" /\ SaveLocked(p))
             => records'[p] = <<record[p]>>
          /\ (op[p] = "save" /\ pc[p] = "write_data" /\ pc'[p] = "return"
                /\ ret'[p].res = "Ok")
             => get(lino_db', record[p].uuid) = Some(record[p])]_vars

\* a writer crashed inside its write of a non-empty collection, and a save
\* made after that has returned Ok with its record alone in the file
C14_Witness ==
    \E p, q \in Procs :
        /\ ~alive[q] /\ pc[q] = "write_data"
        /\ alive[p] /\ pc[p] = "return" /\ op[p] = "save" /\ ret[p].res = "Ok"
        /\ write_image.before # <<>>
        /\ record[p].uuid \notin Uuids(write_image.before)
        /\ Stored = <<record[p]>>
        /\ get(lino_db, record[p].uuid) = Some(record[p])

\* C15: a dry run of cleanup_stale reports the records that a live run made
\* in the same state reports (the live run keeps its scan's finding up to its
\* return, whatever happens to the file meanwhile), gives their number as
\* cleaned, and leaves the primary file and the lock file as they are.
C15_DryRunReportsLikeLiveRun ==
    [][\A p \in Procs :
          /\ \A o \in CleanupInputs :
                CleanupStale(p, o) =>
                  LET found == StaleRecords(Stored, max_age_of(o), now, alive) IN
                  IF o.dry_run
                  THEN /\ ret'[p] = [res |-> "CleanupResult", recs |-> found,
                                     cleaned |-> Len(found), errors |-> <<>>]
                       /\ pc'[p] = "idle"
                       /\ lino_db' = lino_db /\ lock_file' = lock_file
                  ELSE \/ pc'[p] = "idle" /\ ret'[p].recs = found
                       \/ pc'[p] # "idle" /\ stale_records'[p] = found
          /\ (op[p] = "cleanup_stale" /\ alive'[p] /\ pc[p] \notin {"idle", "return"})
             => /\ pc'[p] # "idle" => stale_records'[p] = stale_records[p]
                /\ pc'[p] \in {"idle", "return"} => ret'[p].recs = stale_records[p]]_vars

\* a dry run has reported a stale record, which is still executing in the file
C15_Witness ==
    \E p \in Procs :
        /\ alive[p] /\ pc[p] = "idle" /\ op[p] = "cleanup_stale" /\ arg[p].dry_run
        /\ ret[p].recs # <<>> /\ ret[p].cleaned = Len(ret[p].recs)
        /\ \A i \in 1..Len(ret[p].recs) :
              get(lino_db, ret[p].recs[i].uuid) = Some(ret[p].recs[i])

(***************************************************************************)
(* One process using a store that is empty or already there: record "A"     *)
(* is executing, with or without a pid, of this platform or of another;     *)
(* record "B" is in one of the forms a save can have left.  Both were       *)
(* started at instant 0 and the clock stands at a threshold, one ms before  *)
(* it or one ms after it.  The owner (the other process) is alive or gone,  *)
(* and the first process makes the calls: cleanup_stale, save, get_stats.   *)
(***************************************************************************)
Scanner == CHOOSE p \in Procs : \A q \in Procs : p <= q

ScanAges ==
    {m + d : m \in {LOCK_TIMEOUT_MS, DEFAULT_MAX_AGE_MS}, d \in {0 - 1, 0, 1}}

Owner == CHOOSE p \in Procs : p # Scanner

ScanOwners == {None, Some(Owner)}

ScanPlatforms == {OS, "windows"}

ScannedRecords ==
    {[new(Owner, 0) EXCEPT !.uuid = "A", !.pid = o, !.platform = pl] :
        o \in ScanOwners, pl \in ScanPlatforms}

OtherRecords ==
    {[new(Owner, 0) EXCEPT !.uuid = "B", !.pid = Some(Owner), !.status = st[1],
                       !.exit_code = st[2], !.end_time = st[3]] :
        st \in {<<"executing", None, None>>,
                <<"executed", Some(0), Some(0)>>,
                <<"executed", Some(1), Some(0)>>}}

\* CleanupOptions: no max age, one of 30 s, and the largest u64
ScanInputs ==
    {[uuid |-> "", max_age_ms |-> m, dry_run |-> d] :
        m \in {None, Some(U64(LOCK_TIMEOUT_MS)), Some(U64_MAX)}, d \in BOOLEAN}

InitScan ==
    /\ now \in ScanAges
    /\ alive \in {[p \in Procs |-> TRUE], [p \in Procs |-> p = Scanner]}
    /\ lock_file = NoLock
    /\ \/ \E a \in ScannedRecords, b \in OtherRecords :
             /\ lino_db = FullFile(<<a, b>>)
             /\ last_saved = [u \in UUIDs |-> IF u = "A" THEN Some(a) ELSE Some(b)]
             /\ was_executed = {u \in UUIDs : u = "B" /\ b.status = "executed"}
             /\ misbuilt = ~Consistent(b)
       \/ /\ lino_db = NoFile
          /\ last_saved = [u \in UUIDs |-> None]
          /\ was_executed = {}
          /\ misbuilt = FALSE
    /\ pc = [p \in Procs |-> "idle"]
    /\ op = [p \in Procs |-> "none"]
    /\ record = [p \in Procs |-> NoRecord]
    /\ arg = [p \in Procs |-> NoArg]
    /\ start = [p \in Procs |-> 0]
    /\ lock_acquired = [p \in Procs |-> FALSE]
    /\ records = [p \in Procs |-> <<>>]
    /\ stale_records = [p \in Procs |-> <<>>]
    /\ ret = [p \in Procs |-> NoRet]
    /\ calls = 0
    /\ wrote = [p \in Procs |-> FALSE]
    /\ use_links = [p \in Procs |-> FALSE]
    /\ links_db = {}
    /\ clink = [p \in Procs |-> "none"]
    /\ codec = NoCodec
    /\ run = NoRun
    /\ write_image = NoImage

NextScan ==
    \/ \E o \in ScanInputs : CleanupStale(Scanner, o)
    \/ \E r \in SaveInputs(Scanner) : Save(Scanner, r)
    \/ GetStats(Scanner)
    \/ AcquireTry(Scanner)
    \/ AcquireWrite(Scanner)
    \/ CleanupLocked(Scanner)
    \/ SaveLocked(Scanner)
    \/ WriteOpen(Scanner)
    \/ WriteOpenFail(Scanner)
    \/ WriteAll(Scanner)
    \/ WriteFail(Scanner)
    \/ Return(Scanner)

SpecScan == InitScan /\ [][NextScan]_vars

\* what the scan of a cleanup_stale step has found
Found(p) == IF pc'[p] = "idle" THEN ret'[p].recs ELSE stale_records'[p]

\* the owner of r is not found dead by the probe
NotFoundDead(r) == r.pid = None \/ r.platform # OS \/ alive[r.pid[1]]

\* C16: an executing record whose owner is not found dead is flagged exactly
\* when now - startTime > max_age_ms (strictly), for every max_age_ms a
\* caller can pass and for the default of 24 h.
C16_AgeThresholdStrict ==
    [][\A o \in ScanInputs :
          CleanupStale(Scanner, o) =>
            \A i \in 1..Len(Stored) :
               (Stored[i].status = "executing" /\ NotFoundDead(Stored[i]))
               => LET max_age_ms == max_age_of(o) IN
                  (Stored[i] \in Range(Found(Scanner)))
                    <=> (~max_age_ms.from_top
                           /\ now - Stored[i].start_time > max_age_ms.n)]_vars

C18_CleanupChangesOnlyStale ==
    [][\A p \in Procs :
          CleanupLocked(p) =>
            /\ Len(records'[p]) = Len(Stored)
            /\ \A i \in 1..Len(Stored) :
                  records'[p][i] =
                    IF Stored[i] \in Range(stale_records[p])
                    THEN [Stored[i] EXCEPT !.status = "executed",
                                           !.exit_code = Some(0 - 1),
                                           !.end_time = Some(now)]
                    ELSE Stored[i]]_vars

\* the counts of a collection, one record at a time
Executing(recs) == {i \in 1..Len(recs) : recs[i].status = "executing"}
Executed(recs) == {i \in 1..Len(recs) : recs[i].status = "executed"}
Successful(recs) == {i \in Executed(recs) : recs[i].exit_code = Some(0)}
Failed(recs) ==
    {i \in Executed(recs) : recs[i].exit_code # None /\ recs[i].exit_code # Some(0)}

\* what get_stats returns is the counts of the stored collection
StatsCounted(stats) ==
    /\ stats.total = Len(Stored)
    /\ stats.total = stats.executing + stats.executed
    /\ stats.executing = Cardinality(Executing(Stored))
    /\ stats.executed = Cardinality(Executed(Stored))
    /\ stats.successful = Cardinality(Successful(Stored))
    /\ stats.failed = Cardinality(Failed(Stored))

\* one record, completed with exit code 0, is all there is in the store
EndToEndCase ==
    /\ Len(Stored) = 1
    /\ Stored[1].status = "executed" /\ Stored[1].exit_code = Some(0)

EndToEndStats ==
    [total |-> 1, executing |-> 0, executed |-> 1, successful |-> 1, failed |-> 0]

InitLinks ==
    /\ now = 0
    /\ alive = [p \in Procs |-> TRUE]
    /\ lock_file = NoLock
    /\ lino_db = NoFile
    /\ pc = [p \in Procs |-> "idle"]
    /\ op = [p \in Procs |-> "none"]
    /\ record = [p \in Procs |-> NoRecord]
    /\ arg = [p \in Procs |-> NoArg]
    /\ start = [p \in Procs |-> 0]
    /\ lock_acquired = [p \in Procs |-> FALSE]
    /\ records = [p \in Procs |-> <<>>]
    /\ stale_records = [p \in Procs |-> <<>>]
    /\ ret = [p \in Procs |-> NoRet]
    /\ calls = 0
    /\ wrote = [p \in Procs |-> FALSE]
    /\ \E enabled \in BOOLEAN :
          use_links = [p \in Procs |-> enabled /\ p = Scanner]
    /\ links_db = {}
    /\ clink = [p \in Procs |-> "none"]
    /\ codec = NoCodec
    /\ run = NoRun
    /\ write_image = NoImage
    /\ was_executed = {}
    /\ last_saved = [u \in UUIDs |-> None]
    /\ misbuilt = FALSE

NextLinks ==
    \/ \E r \in SaveInputs(Scanner) : Save(Scanner, r)
    \/ \E u \in UuidInputs : Delete(Scanner, u)
    \/ Clear(Scanner)
    \/ AcquireTry(Scanner)
    \/ AcquireWrite(Scanner)
    \/ SaveLocked(Scanner)
    \/ DeleteLocked(Scanner)
    \/ WriteOpen(Scanner)
    \/ WriteOpenFail(Scanner)
    \/ WriteAll(Scanner)
    \/ Return(Scanner)

SpecLinks == InitLinks /\ [][NextLinks]_vars

\* the collection a call leaves in the primary file, from the collection
\* that was there and the call alone
PrimaryAfter(p, before) ==
    CASE op[p] = "save" ->
           IF record[p].uuid \in Uuids(before)
           THEN [i \in 1..Len(before) |->
                   IF before[i].uuid = record[p].uuid THEN record[p] ELSE before[i]]
           ELSE before \o <<record[p]>>
      [] op[p] = "delete" ->
           filter(before, {r \in Range(before) : r.uuid # arg[p].uuid})
      [] OTHER -> <<>>

\* C20: the secondary store has no influence on the primary store.  When a
\* call returns, the primary file holds what the call makes of the
\* collection that was there, whether the secondary store is disabled,
\* enabled and succeeding, or enabled and failing; the step to the secondary
\* store leaves the primary file and the value to return as they are, and a
\* failure of the secondary store is not returned.
C20_SecondaryHasNoInfluence ==
    [][\A p \in Procs :
          Return(p) =>
            /\ ret'[p] = ret[p]
            /\ lino_db' = lino_db
            /\ clink'[p] = "failed" => ret'[p].res \in {"Ok", "Ok(true)"}
            /\ (wrote[p] /\ ret[p].res \in {"Ok", "Ok(true)"})
               => Stored' = PrimaryAfter(p, write_image.before)]_vars

\* a save has returned Ok and its record is in the primary file, while the
\* clink run of that save has failed and the secondary store lacks the record
C20_Witness ==
    \E p \in Procs :
        /\ pc[p] = "idle" /\ op[p] = "save" /\ ret[p].res = "Ok"
        /\ use_links[p] /\ clink[p] = "failed"
        /\ get(lino_db, record[p].uuid) = Some(record[p])
        /\ record[p].uuid \notin links_db
        /\ Len(Stored) > 1

\* the records of recs other than the one(s) of uuid u, in their order
Others(recs, u) == filter(recs, {r \in Range(recs) : r.uuid # u})

\* C21: delete(uuid), called when no other call is in progress, returns
\* Ok(true) exactly when a record of that uuid was in the collection; then
\* get(uuid) is None and the other records are as they were; when it returns
\* Ok(false) the primary file is not written.
C21_DeleteRemovesOnlyThatRecord ==
    [][\A p \in Procs :
          /\ DeleteLocked(p) =>
                IF arg[p].uuid \in Uuids(Stored)
                THEN pc'[p] = "write_open" /\ ret'[p].res # "Ok(false)"
                ELSE /\ pc'[p] = "return" /\ ret'[p].res = "Ok(false)"
                     /\ ~wrote[p] /\ lino_db' = lino_db
          /\ (op[p] = "delete" /\ WriteAll(p)) =>
                /\ ret'[p].res = "Ok(true)"
                /\ arg[p].uuid \in Uuids(write_image.before)
                /\ get(lino_db', arg[p].uuid) = None
                /\ Stored' = Others(write_image.before, arg[p].uuid)
          /\ (op[p] = "delete" /\ Return(p)) =>
                /\ ret'[p].res \in {"Ok(true)", "Ok(false)"} \/ ret'[p].errors # <<>>
                /\ ret'[p].res = "Ok(false)" => (~wrote[p] /\ lino_db' = lino_db)]_vars

\* a delete has returned Ok(true): its uuid is gone and another record is
\* still stored
C21_Witness ==
    \E p \in Procs :
        /\ alive[p] /\ pc[p] = "idle" /\ op[p] = "delete" /\ ret[p].res = "Ok(true)"
        /\ get(lino_db, arg[p].uuid) = None
        /\ Len(Stored) = 1

(***************************************************************************)
(* get_recent, lines 561-568.  start_time is the text of                    *)
(* Utc::now().to_rfc3339() (line 98) and the sort compares these texts as   *)
(* Rust compares Strings: byte by byte, a proper prefix being the smaller.  *)
(* A text is the sequence of its bytes.                                     *)
(***************************************************************************)
\* n in decimal, w digits wide, zero padded
RECURSIVE digits(_, _)
digits(n, w) ==
    IF w = 0 THEN <<>> ELSE digits(n \div 10, w - 1) \o <<48 + (n % 10)>>

\* the instant t (ms) as text: the date and time down to the second in fixed
\* width, the fraction left out when it is zero and given in three digits
\* otherwise, then the offset "+00:00"
to_rfc3339(t) ==
    digits(t \div 1000, 6)
        \o (IF t % 1000 = 0 THEN <<>> ELSE <<46>> \o digits(t % 1000, 3))
        \o <<43>>

\* Ord for String: "less", "equal" or "greater"
RECURSIVE cmp(_, _)
cmp(a, b) ==
    IF a = <<>> THEN (IF b = <<>> THEN "equal" ELSE "less")
    ELSE IF b = <<>> THEN "greater"
    ELSE IF Head(a) < Head(b) THEN "less"
    ELSE IF Head(a) > Head(b) THEN "greater"
    ELSE cmp(Tail(a), Tail(b))

\* r put into a sequence sorted with the later text first, behind the
\* records of the same text (sort_by is stable)
insert_recent(sorted, r) ==
    LET before == {k \in 1..Len(sorted) :
                      cmp(to_rfc3339(sorted[k].start_time),
                          to_rfc3339(r.start_time)) = "less"}
        k == IF before = {} THEN Len(sorted) + 1
             ELSE CHOOSE i \in before : \A j \in before : i <= j
    IN  SubSeq(sorted, 1, k - 1) \o <<r>> \o SubSeq(sorted, k, Len(sorted))

RECURSIVE sort_recent(_)
sort_recent(recs) ==
    IF recs = <<>> THEN <<>>
    ELSE insert_recent(sort_recent(SubSeq(recs, 1, Len(recs) - 1)),
                       recs[Len(recs)])

\* get_recent that only truncates
get_recent_unsorted(f, limit) ==
    LET recs == read_lino_records(f) IN
    SubSeq(recs, 1, IF limit < Len(recs) THEN limit ELSE Len(recs))

get_recent(f, limit) ==
    LET recs == sort_recent(read_lino_records(f)) IN
    SubSeq(recs, 1, IF limit < Len(recs) THEN limit ELSE Len(recs))

\* the limits a caller passes: none, fewer than, as many as and more than
\* the records there can be
RecentLimits == 0..(Cardinality(UUIDs) + 1)

GetRecent(p, limit) ==
    /\ Begin(p, "get_recent", NoArg)
    /\ ret' = [ret EXCEPT ![p] = RetRecs("get_recent", get_recent(lino_db, limit))]
    /\ UNCHANGED <<now, alive, lock_file, lino_db, pc, record, start,
                   lock_acquired, records, stale_records>>
    /\ UNCHANGED history
    /\ UNCHANGED links
    /\ UNCHANGED codec
    /\ UNCHANGED run

(***************************************************************************)
(* get_recent over a store that is already there: up to one record per      *)
(* uuid, in either order, each started at one of a few instants that        *)
(* differ in the second, in the fraction, and in having a fraction at all.  *)
(***************************************************************************)
StartInstants == {0, 500, 1000, 1500, LOCK_TIMEOUT_MS, LOCK_TIMEOUT_MS + 1}

StartedRecords(u) ==
    {[new(Owner, t) EXCEPT !.uuid = u, !.pid = Some(Owner)] : t \in StartInstants}

RecentStores ==
    {<<>>}
    \cup {<<a>> : a \in StartedRecords("A")}
    \cup {<<a, b>> : a \in StartedRecords("A"), b \in StartedRecords("B")}
    \cup {<<b, a>> : a \in StartedRecords("A"), b \in StartedRecords("B")}

InitRecent ==
    /\ now = 2 * LOCK_TIMEOUT_MS
    /\ alive = [p \in Procs |-> TRUE]
    /\ lock_file = NoLock
    /\ \E recs \in RecentStores :
          /\ lino_db = FullFile(recs)
          /\ last_saved = [u \in UUIDs |->
                             IF u \in Uuids(recs)
                             THEN Some(recs[position(recs, u)]) ELSE None]
    /\ pc = [p \in Procs |-> "idle"]
    /\ op = [p \in Procs |-> "none"]
    /\ record = [p \in Procs |-> NoRecord]
    /\ arg = [p \in Procs |-> NoArg]
    /\ start = [p \in Procs |-> 0]
    /\ lock_acquired = [p \in Procs |-> FALSE]
    /\ records = [p \in Procs |-> <<>>]
    /\ stale_records = [p \in Procs |-> <<>>]
    /\ ret = [p \in Procs |-> NoRet]
    /\ calls = 0
    /\ wrote = [p \in Procs |-> FALSE]
    /\ use_links = [p \in Procs |-> FALSE]
    /\ links_db = {}
    /\ clink = [p \in Procs |-> "none"]
    /\ codec = NoCodec
    /\ run = NoRun
    /\ write_image = NoImage
    /\ was_executed = {}
    /\ misbuilt = FALSE

NextRecent == \E limit \in RecentLimits : GetRecent(Scanner, limit)

SpecRecent == InitRecent /\ [][NextRecent]_vars

LPAREN == "("
RPAREN == ")"
COLON == ":"
SPACE == " "
SQUOTE == "'"
DQUOTE == "\""
BACKSLASH == "\\"
FORMFEED == "\f"

\* char::is_whitespace, over the characters of the model
is_whitespace(c) == c \in {SPACE, "\t", "\n", "\r", FORMFEED}

\* numerals by the range they fit
U64OnlyNumerals == {"9223372036854775808", "18446744073709551615"}

\* BASE64.encode(s.as_bytes()) for the Strings of the model; the empty
\* String has the empty text
Base64Table ==
    {<< <<>>, <<>> >>,
     << <<"hello">>, <<"aGVsbG8=">> >>,
     << <<"key">>, <<"a2V5">> >>}

base64_encode(str) == (CHOOSE e \in Base64Table : e[1] = str)[2]

\* Ok(text) as <<text>>, Err as <<>>
base64_decode(b64) ==
    IF \E e \in Base64Table : e[2] = b64
    THEN <<(CHOOSE e \in Base64Table : e[2] = b64)[1]>>
    ELSE <<>>

(***************************************************************************)
(* Link, lines 24-117.                                                      *)
(***************************************************************************)
LinkNew(id) == [id |-> Some(id), values |-> <<>>]
LinkWithValues(id, values) == [id |-> id, values |-> values]
LinkEmpty == [id |-> None, values |-> <<>>]

\* the texts one after the other
RECURSIVE concat(_)
concat(texts) ==
    IF texts = <<>> THEN <<>> ELSE Head(texts) \o concat(Tail(texts))

\* [..].join(" ")
RECURSIVE join(_)
join(texts) ==
    IF texts = <<>> THEN <<>>
    ELSE IF Len(texts) = 1 THEN texts[1]
    ELSE texts[1] \o <<SPACE>> \o join(Tail(texts))

\* reference.replace('\'', "\\'")
escape_single_quotes(reference) ==
    concat([i \in 1..Len(reference) |->
              IF reference[i] = SQUOTE THEN <<BACKSLASH, SQUOTE>>
              ELSE <<reference[i]>>])

\* Link::escape_reference, lines 58-87
escape_reference(reference) ==
    LET contains(c) == \E i \in 1..Len(reference) : reference[i] = c
        has_single_quote == contains(SQUOTE)
        has_double_quote == contains(DQUOTE)
        needs_quoting ==
            \/ contains(COLON) \/ contains(LPAREN) \/ contains(RPAREN)
            \/ contains(SPACE) \/ contains("\t") \/ contains("\n")
            \/ contains("\r")
            \/ has_single_quote \/ has_double_quote
    IN  IF reference = <<>> THEN <<>>
        ELSE IF has_single_quote /\ has_double_quote
             THEN <<SQUOTE>> \o escape_single_quotes(reference) \o <<SQUOTE>>
        ELSE IF has_double_quote THEN <<SQUOTE>> \o reference \o <<SQUOTE>>
        ELSE IF has_single_quote THEN <<DQUOTE>> \o reference \o <<DQUOTE>>
        ELSE IF needs_quoting THEN <<SQUOTE>> \o reference \o <<SQUOTE>>
        ELSE reference

\* Link::format, lines 90-130
RECURSIVE format(_)
format(link) ==
    IF link.values = <<>>
    THEN IF link.id = None THEN <<LPAREN, RPAREN>>
         ELSE <<LPAREN>> \o escape_reference(link.id[1]) \o <<RPAREN>>
    ELSE LET values_str ==
                 join([i \in 1..Len(link.values) |->
                         LET v == link.values[i] IN
                         IF v.values = <<>>
                         THEN IF v.id # None THEN escape_reference(v.id[1])
                              ELSE <<>>
                         ELSE format(v)])
         IN  IF link.id = None
             THEN <<LPAREN>> \o values_str \o <<RPAREN>>
             ELSE <<LPAREN>> \o escape_reference(link.id[1])
                     \o <<COLON, SPACE>> \o values_str \o <<RPAREN>>

(***************************************************************************)
(* ObjectCodec::encode, lines 161-207.                                      *)
(***************************************************************************)
ValueNull == <<"null", <<>>>>
ValueBool(b) == <<"bool", <<IF b THEN "true" ELSE "false">>>>
ValueInt(numeral) == <<"int", <<numeral>>>>
ValueFloat(numeral) == <<"float", <<numeral>>>>
ValueString(str) == <<"str", <<str>>>>
ValueArray(items) == <<"array", items>>
ValueObject(entries) == <<"object", entries>>

\* the keys of a map in the order the map iterates them
KeyOrder == << <<>>, <<"hello">>, <<"key">> >>

\* the entries of a map in that order
MapEntries(entries) ==
    LET keys == filter(KeyOrder, {k \in Range(KeyOrder) :
                                    \E e \in entries : e[1] = k})
    IN  [i \in 1..Len(keys) |-> CHOOSE e \in entries : e[1] = keys[i]]

RECURSIVE encode_value(_)
encode_value(value) ==
    CASE value[1] = "null" ->
           LinkWithValues(None, <<LinkNew(<<"null">>)>>)
      [] value[1] = "bool" ->
           LinkWithValues(None, <<LinkNew(<<"bool">>), LinkNew(value[2])>>)
      [] value[1] = "int" ->
           LinkWithValues(None, <<LinkNew(<<"int">>), LinkNew(value[2])>>)
      [] value[1] = "float" ->
           LinkWithValues(None, <<LinkNew(<<"float">>), LinkNew(value[2])>>)
      [] value[1] = "str" ->
           LinkWithValues(None, <<LinkNew(<<"str">>),
                                  LinkNew(base64_encode(value[2][1]))>>)
      [] value[1] = "array" ->
           LinkWithValues(None,
               <<LinkNew(<<"array">>)>>
                   \o [i \in 1..Len(value[2]) |-> encode_value(value[2][i])])
      [] OTHER ->
           LET entries == MapEntries(value[2]) IN
           LinkWithValues(None,
               <<LinkNew(<<"object">>)>>
                   \o [i \in 1..Len(entries) |->
                         LinkWithValues(None,
                             <<encode_value(ValueString(entries[i][1])),
                               encode_value(entries[i][2])>>)])

\* encode(value), lines 162-166 and 483-486
codec_encode(value) == format(encode_value(value))

(***************************************************************************)
(* Parser, lines 320-478.  Every parse function gives <<error, what it      *)
(* parsed, position after it>>; the error is the empty text when there is   *)
(* none.  Positions count from 1.                                           *)
(***************************************************************************)
NoError == <<>>
ExpectedIdentifier == <<"Expected identifier">>
UnterminatedString == <<"Unterminated string">>
UnexpectedEnd == <<"Unexpected end of input">>
UnknownTypeMarker(marker) == <<"Unknown type marker: ">> \o marker

\* peek, lines 331-333: Some(c) or None
peek(input, pos) == IF pos <= Len(input) THEN Some(input[pos]) ELSE None

RECURSIVE skip_whitespace(_, _)
skip_whitespace(input, pos) ==
    IF pos <= Len(input) /\ is_whitespace(input[pos])
    THEN skip_whitespace(input, pos + 1)
    ELSE pos

\* the loop of parse_quoted_string, lines 453-471
RECURSIVE quoted_loop(_, _, _, _, _)
quoted_loop(input, pos, quote, result, escaped) ==
    IF pos > Len(input) THEN <<UnterminatedString, <<>>, pos>>
    ELSE LET c == input[pos] IN
         IF escaped THEN quoted_loop(input, pos + 1, quote, Append(result, c), FALSE)
         ELSE IF c = BACKSLASH THEN quoted_loop(input, pos + 1, quote, result, TRUE)
         ELSE IF c = quote THEN <<NoError, result, pos + 1>>
         ELSE quoted_loop(input, pos + 1, quote, Append(result, c), FALSE)

parse_quoted_string(input, pos) ==
    quoted_loop(input, pos + 1, input[pos], <<>>, FALSE)

\* the loop of parse_id, lines 436-443
RECURSIVE unquoted_loop(_, _, _)
unquoted_loop(input, pos, id) ==
    IF pos > Len(input) \/ is_whitespace(input[pos])
         \/ input[pos] \in {COLON, LPAREN, RPAREN}
    THEN <<id, pos>>
    ELSE unquoted_loop(input, pos + 1, Append(id, input[pos]))

parse_id(input, pos0) ==
    LET pos == skip_whitespace(input, pos0) IN
    IF peek(input, pos) \in {Some(DQUOTE), Some(SQUOTE)}
    THEN parse_quoted_string(input, pos)
    ELSE LET got == unquoted_loop(input, pos, <<>>) IN
         IF got[1] = <<>> THEN <<ExpectedIdentifier, <<>>, got[2]>>
         ELSE <<NoError, got[1], got[2]>>

RECURSIVE parse_link(_, _)
RECURSIVE parse_id_or_link(_, _)
RECURSIVE parse_values(_, _, _)

\* the two loops of parse_link, lines 374-384 and 390-400
parse_values(input, pos0, values) ==
    LET pos == skip_whitespace(input, pos0) IN
    IF peek(input, pos) = Some(RPAREN) THEN <<NoError, values, pos + 1>>
    ELSE IF peek(input, pos) = None THEN <<UnexpectedEnd, <<>>, pos>>
    ELSE LET next == parse_id_or_link(input, pos) IN
         IF next[1] # NoError THEN <<next[1], <<>>, next[3]>>
         ELSE parse_values(input, next[3], Append(values, next[2]))

parse_id_or_link(input, pos0) ==
    LET pos == skip_whitespace(input, pos0) IN
    IF peek(input, pos) = Some(LPAREN) THEN parse_link(input, pos)
    ELSE LET id == parse_id(input, pos) IN
         IF id[1] # NoError THEN <<id[1], LinkEmpty, id[3]>>
         ELSE <<NoError, LinkNew(id[2]), id[3]>>

parse_link(input, pos0) ==
    LET pos == skip_whitespace(input, pos0) IN
    IF peek(input, pos) # Some(LPAREN)
    THEN LET id == parse_id(input, pos) IN
         IF id[1] # NoError THEN <<id[1], LinkEmpty, id[3]>>
         ELSE <<NoError, LinkNew(id[2]), id[3]>>
    ELSE LET pos1 == skip_whitespace(input, pos + 1) IN
         IF peek(input, pos1) = Some(RPAREN) THEN <<NoError, LinkEmpty, pos1 + 1>>
         ELSE LET first == parse_id_or_link(input, pos1) IN
              IF first[1] # NoError THEN <<first[1], LinkEmpty, first[3]>>
              ELSE LET pos2 == skip_whitespace(input, first[3]) IN
                   IF peek(input, pos2) = Some(COLON)
                   THEN LET rest == parse_values(input, pos2 + 1, <<>>) IN
                        IF rest[1] # NoError THEN <<rest[1], LinkEmpty, rest[3]>>
                        ELSE <<NoError, LinkWithValues(first[2].id, rest[2]),
                               rest[3]>>
                   ELSE LET rest == parse_values(input, pos2, <<first[2]>>) IN
                        IF rest[1] # NoError THEN <<rest[1], LinkEmpty, rest[3]>>
                        ELSE <<NoError, LinkWithValues(None, rest[2]), rest[3]>>

\* notation.trim(), line 219
RECURSIVE trim_end(_)
trim_end(text) ==
    IF text # <<>> /\ is_whitespace(text[Len(text)])
    THEN trim_end(SubSeq(text, 1, Len(text) - 1))
    ELSE text

trim(text) ==
    LET from == skip_whitespace(text, 1) IN
    trim_end(SubSeq(text, from, Len(text)))

\* ObjectCodec::parse, lines 218-226: <<error, link>>
parse(notation) ==
    LET text == trim(notation) IN
    IF text = <<>> THEN <<NoError, LinkEmpty>>
    ELSE LET got == parse_link(text, 1) IN <<got[1], got[2]>>

(***************************************************************************)
(* ObjectCodec::decode, lines 209-310.  A Result is <<"ok", value>> or      *)
(* <<"err", message>>.                                                      *)
(***************************************************************************)
Ok(value) == <<"ok", value>>
Err(message) == <<"err", message>>
is_ok(result) == result[1] = "ok"
is_err(result) == result[1] = "err"

\* str::parse::<i64>: the numerals it accepts and the number each one is,
\* written as i64::to_string writes it
I64Table == { <<"0", "0">>, <<"42", "42">>, <<"+42", "42">>, <<"-123", "-123">>,
              <<"9223372036854775807", "9223372036854775807">> }

TooLarge == <<"number too large to fit in target type">>
InvalidDigit == <<"invalid digit found in string">>
EmptyInteger == <<"cannot parse integer from empty string">>
InvalidFloat == <<"invalid float literal">>
InvalidBase64 == <<"Invalid base64 input">>

parse_i64(s) ==
    IF s = <<>> THEN Err(EmptyInteger)
    ELSE IF Len(s) = 1 /\ \E e \in I64Table : e[1] = s[1]
         THEN Ok(ValueInt((CHOOSE e \in I64Table : e[1] = s[1])[2]))
    ELSE IF Len(s) = 1 /\ s[1] \in U64OnlyNumerals THEN Err(TooLarge)
    ELSE Err(InvalidDigit)

\* str::parse::<f64> followed by Number::from_f64: the numerals it accepts and
\* the number each one is, written as serde_json writes it
F64Table == { <<"1.5", "1.5">>, <<"0", "0.0">>, <<"42", "42.0">>,
              <<"+42", "42.0">>, <<"-123", "-123.0">>,
              <<"9223372036854775807", "9.223372036854776e18">>,
              <<"9223372036854775808", "9.223372036854776e18">>,
              <<"18446744073709551615", "1.8446744073709552e19">> }

\* the texts str::parse::<f64> reads as a value that is not finite
NonFinite == {"NaN", "Infinity", "-Infinity", "inf", "-inf", "infinity"}

parse_f64(s) ==
    IF Len(s) = 1 /\ \E e \in F64Table : e[1] = s[1]
    THEN Ok(ValueFloat((CHOOSE e \in F64Table : e[1] = s[1])[2]))
    ELSE IF Len(s) = 1 /\ s[1] \in NonFinite THEN Ok(ValueNull)
    ELSE Err(InvalidFloat)

\* obj.insert(k, val)
insert(obj, k, val) == {e \in obj : e[1] # k} \cup {<<k, val>>}

RECURSIVE decode_link(_)
RECURSIVE decode_items(_, _, _)
RECURSIVE decode_pairs(_, _, _)

\* the loop of the ARRAY arm, lines 287-290
decode_items(values, i, arr) ==
    IF i > Len(values) THEN Ok(ValueArray(arr))
    ELSE LET item == decode_link(values[i]) IN
         IF is_err(item) THEN item
         ELSE decode_items(values, i + 1, Append(arr, item[2]))

\* the loop of the OBJECT arm, lines 295-303
decode_pairs(values, i, obj) ==
    IF i > Len(values) THEN Ok(ValueObject(obj))
    ELSE LET pair == values[i] IN
         IF Len(pair.values) >= 2
         THEN LET key == decode_link(pair.values[1]) IN
              IF is_err(key) THEN key
              ELSE LET val == decode_link(pair.values[2]) IN
                   IF is_err(val) THEN val
                   ELSE IF key[2][1] = "str"
                        THEN decode_pairs(values, i + 1,
                                          insert(obj, key[2][2][1], val[2]))
                        ELSE decode_pairs(values, i + 1, obj)
         ELSE decode_pairs(values, i + 1, obj)

decode_link(link) ==
    IF link.values = <<>>
    THEN IF link.id # None THEN Ok(ValueString(link.id[1])) ELSE Ok(ValueNull)
    ELSE LET first == link.values[1]
             type_marker == IF first.id = None THEN <<>> ELSE first.id[1]
             val == IF Len(link.values) >= 2 THEN link.values[2].id ELSE None
         IN  CASE type_marker = <<"null">> -> Ok(ValueNull)
               [] type_marker = <<"bool">> -> Ok(ValueBool(val = Some(<<"true">>)))
               [] type_marker = <<"int">> ->
                    IF val = None THEN Ok(ValueInt("0")) ELSE parse_i64(val[1])
               [] type_marker = <<"float">> ->
                    IF val = None THEN Ok(ValueFloat("0.0")) ELSE parse_f64(val[1])
               [] type_marker = <<"str">> ->
                    IF val = None THEN Ok(ValueString(<<>>))
                    ELSE IF base64_decode(val[1]) # None
                         THEN Ok(ValueString(base64_decode(val[1])[1]))
                         ELSE Err(InvalidBase64)
               [] type_marker = <<"array">> ->
                    decode_items(link.values, 2, <<>>)
               [] type_marker = <<"object">> ->
                    decode_pairs(link.values, 2, {})
               [] OTHER -> Err(UnknownTypeMarker(type_marker))

\* decode(notation), lines 210-214 and 488-491
codec_decode(notation) ==
    LET link == parse(notation) IN
    IF link[1] # NoError THEN Err(link[1]) ELSE decode_link(link[2])

(***************************************************************************)
(* The codec by itself: one call of encode, decode or escape_reference on   *)
(* an input taken from a bounded set, and decode of what encode wrote.      *)
(***************************************************************************)
MaxItems == 2
MaxText == 5
MaxToken == 3

SeqsUpTo(S, n) == UNION {[1..k -> S] : k \in 0..n}

\* the numbers a Value holds: all of i64, and of u64 what is above i64
Integers64 == {ValueInt(e[2]) : e \in I64Table}
                 \cup {ValueInt(n) : n \in U64OnlyNumerals}

Strings == {ValueString(e[1]) : e \in Base64Table}

Leaves == {ValueNull, ValueBool(TRUE), ValueBool(FALSE)} \cup Integers64 \cup Strings

Keys == {k \in Range(KeyOrder) : k # <<"hello">>}

Arrays(S) == {ValueArray(items) : items \in SeqsUpTo(S, MaxItems)}

Objects(S) ==
    {ValueObject({<<k, m[k]>> : k \in ks}) :
        ks \in SUBSET Keys, m \in [Keys -> S]}

Inner == {ValueNull, ValueInt("42"), ValueString(<<>>), ValueString(<<"hello">>),
          ValueArray(<<>>), ValueObject({}),
          ValueArray(<<ValueInt("42")>>),
          ValueObject({<< <<"key">>, ValueString(<<"hello">>) >>})}

CodecValues == Leaves \cup Arrays(Leaves) \cup Objects(Leaves)
                  \cup Arrays(Inner) \cup Objects(Inner)

TextSymbols == {LPAREN, RPAREN, COLON, SPACE, SQUOTE, BACKSLASH,
                "int", "tag", "42"}

CodecTexts == SeqsUpTo(TextSymbols, MaxText)

TokenSymbols == {"a", COLON, LPAREN, RPAREN, SPACE, "\t", FORMFEED,
                 SQUOTE, DQUOTE, BACKSLASH}

CodecTokens == SeqsUpTo(TokenSymbols, MaxToken)

InitCodec ==
    /\ now = 0
    /\ alive = [p \in Procs |-> TRUE]
    /\ lock_file = NoLock
    /\ lino_db = NoFile
    /\ pc = [p \in Procs |-> "idle"]
    /\ op = [p \in Procs |-> "none"]
    /\ record = [p \in Procs |-> NoRecord]
    /\ arg = [p \in Procs |-> NoArg]
    /\ start = [p \in Procs |-> 0]
    /\ lock_acquired = [p \in Procs |-> FALSE]
    /\ records = [p \in Procs |-> <<>>]
    /\ stale_records = [p \in Procs |-> <<>>]
    /\ ret = [p \in Procs |-> NoRet]
    /\ calls = 0
    /\ wrote = [p \in Procs |-> FALSE]
    /\ use_links = [p \in Procs |-> FALSE]
    /\ links_db = {}
    /\ clink = [p \in Procs |-> "none"]
    /\ \/ \E v \in CodecValues :
             codec = [NoCodec EXCEPT !.given = "value", !.value = v]
       \/ \E t \in CodecTexts :
             codec = [NoCodec EXCEPT !.given = "text", !.text = t]
       \/ \E t \in CodecTokens :
             codec = [NoCodec EXCEPT !.given = "token", !.text = t]
    /\ run = NoRun
    /\ write_image = NoImage
    /\ was_executed = {}
    /\ last_saved = [u \in UUIDs |-> None]
    /\ misbuilt = FALSE

store == <<now, alive, lock_file, lino_db, pc, op, record, arg, start,
           lock_acquired, records, stale_records, ret, calls, wrote>>

\* encode(&value)
Encode ==
    /\ codec.given = "value"
    /\ codec.step = "start"
    /\ codec' = [codec EXCEPT !.step = "encoded",
                              !.text = codec_encode(codec.value)]
    /\ UNCHANGED store
    /\ UNCHANGED history
    /\ UNCHANGED links
    /\ UNCHANGED run

\* decode(&notation), of a text as it is or of what encode wrote
Decode ==
    /\ \/ codec.given = "text" /\ codec.step = "start"
       \/ codec.given = "value" /\ codec.step = "encoded"
    /\ codec' = [codec EXCEPT !.step = "decoded",
                              !.result = codec_decode(codec.text)]
    /\ UNCHANGED store
    /\ UNCHANGED history
    /\ UNCHANGED links
    /\ UNCHANGED run

\* Link::escape_reference(token)
Escape ==
    /\ codec.given = "token"
    /\ codec.step = "start"
    /\ codec' = [codec EXCEPT !.step = "escaped",
                              !.result = escape_reference(codec.text)]
    /\ UNCHANGED store
    /\ UNCHANGED history
    /\ UNCHANGED links
    /\ UNCHANGED run

\* Parser::parse_id over what escape_reference returned
ParseId ==
    /\ codec.given = "token"
    /\ codec.step = "escaped"
    /\ codec' = [codec EXCEPT !.step = "parsed",
                              !.value = parse_id(codec.result, 1)]
    /\ UNCHANGED store
    /\ UNCHANGED history
    /\ UNCHANGED links
    /\ UNCHANGED run

NextCodec == Encode \/ Decode \/ Escape \/ ParseId

SpecCodec == InitCodec /\ [][NextCodec]_vars

\* C23: decode(encode(v)) = v for every value built from null, booleans,
\* 64-bit integers, strings, lists and maps with distinct keys.
C23_RoundTrip ==
    (codec.given = "value" /\ codec.step = "decoded")
        => codec.result = Ok(codec.value)

\* the text with k closing parentheses after it
Closed(text, k) == text \o [i \in 1..k |-> RPAREN]

\* a text cut off inside a parenthesis: it does not parse, and it does once
\* the missing closing parentheses are there
EndsInsideParenthesis(text) ==
    /\ parse(text)[1] # NoError
    /\ \E k \in 1..MaxText : parse(Closed(text, k))[1] = NoError

\* a text cut off inside a quoted string: it does not parse, closing
\* parentheses alone do not help, and it does parse once the missing quote
\* (and the closing parentheses after it) are there
EndsInsideString(text) ==
    /\ parse(text)[1] # NoError
    /\ ~EndsInsideParenthesis(text)
    /\ \E q \in {SQUOTE, DQUOTE}, k \in 0..MaxText :
          parse(Closed(text \o <<q>>, k))[1] = NoError

TypeMarkers == {<<"null">>, <<"bool">>, <<"int">>, <<"float">>, <<"str">>,
                <<"array">>, <<"object">>}

\* the type tag of a link that has one
TagOf(link) == IF link.values[1].id = None THEN <<>> ELSE link.values[1].id[1]

\* a text that parses to a link whose type tag is none of the known ones
HasUnknownTag(text) ==
    /\ parse(text)[1] = NoError
    /\ parse(text)[2].values # <<>>
    /\ TagOf(parse(text)[2]) \notin TypeMarkers

\* C24: decode gives a result on every text, and each failure mode gives
\* its own error: an unterminated quoted string "Unterminated string", the
\* end of the input inside an unclosed parenthesis "Unexpected end of
\* input", an unknown type tag "Unknown type marker".
C24_OwnErrorPerFailureMode ==
    (codec.given = "text" /\ codec.step = "decoded") =>
        /\ is_ok(codec.result) \/ is_err(codec.result)
        /\ EndsInsideString(codec.text)
              => codec.result = Err(UnterminatedString)
        /\ EndsInsideParenthesis(codec.text)
              => codec.result = Err(UnexpectedEnd)
        /\ HasUnknownTag(codec.text)
              => codec.result = Err(UnknownTypeMarker(TagOf(parse(codec.text)[2])))

\* the token has the character in it
Contains(token, c) == \E i \in 1..Len(token) : token[i] = c

\* the token has a colon, a parenthesis, whitespace or a quote in it
NeedsQuotes(token) ==
    \E i \in 1..Len(token) :
        \/ token[i] \in {COLON, LPAREN, RPAREN, SQUOTE, DQUOTE}
        \/ is_whitespace(token[i])

\* the token between two quotes q
Wrapped(token, q) == <<q>> \o token \o <<q>>

\* the token with a backslash before each single quote
RECURSIVE SingleQuotesEscaped(_)
SingleQuotesEscaped(token) ==
    IF token = <<>> THEN <<>>
    ELSE (IF Head(token) = SQUOTE THEN <<BACKSLASH, SQUOTE>> ELSE <<Head(token)>>)
            \o SingleQuotesEscaped(Tail(token))

\* C25: escape_reference gives the token back as it is when it has no
\* colon, parenthesis, whitespace or quote in it; otherwise it gives it
\* between quotes of the kind that is not in the token, and when both kinds
\* are in it, between single quotes with a backslash before each single
\* quote of the token.
C25_EscapeReference ==
    (codec.given = "token" /\ codec.step = "escaped") =>
        LET token == codec.text IN
        IF ~NeedsQuotes(token) THEN codec.result = token
        ELSE IF Contains(token, SQUOTE) /\ Contains(token, DQUOTE)
             THEN codec.result = Wrapped(SingleQuotesEscaped(token), SQUOTE)
        ELSE IF Contains(token, DQUOTE) THEN codec.result = Wrapped(token, SQUOTE)
        ELSE IF Contains(token, SQUOTE) THEN codec.result = Wrapped(token, DQUOTE)
        ELSE codec.result \in {Wrapped(token, SQUOTE), Wrapped(token, DQUOTE)}

(***************************************************************************)
(* One start process running a command directly (main.rs, run_direct) and   *)
(* its signal handler.  run.pc is the place of the main thread, run.hpc the *)
(* place of the handler; once a signal has come, the main thread runs no    *)
(* further, because the handler ends in process::exit.  registered and      *)
(* mutex are CURRENT_EXECUTION and its Mutex.  A save of the main thread    *)
(* is two steps, with the lock file there in between; a save of the         *)
(* handler is one step.                                                     *)
(***************************************************************************)
SIGHUP == 1
SIGINT == 2
SIGTERM == 15

Signals == {SIGHUP, SIGINT, SIGTERM}

MaxSignals == 2

\* status.code().unwrap_or(1) of the child
CommandExitCodes == {0, 1}

\* what is left of the store's and the callers' state
callers == <<alive, pc, op, record, arg, start, lock_acquired, records,
             stale_records, ret, calls, wrote>>

\* the ExecutionRecord run_direct builds, lines 794-800
run_record(uuid) ==
    with_options([uuid |-> Some(uuid), pid |-> Some(Scanner), status |-> None,
                  exit_code |-> None, start_time |-> None, end_time |-> None,
                  platform |-> None], Scanner, now)

\* the lock file while a save of this process is under way
held_lock == [exists |-> TRUE, owner |-> Scanner, written |-> TRUE,
              pid |-> Scanner, timestamp |-> now]

\* store.save(record) from acquire to release: Ok with the record in the
\* file, or Err with the file as it was or cut to nothing
save_outcomes(f, r) ==
    {<<"Ok", FullFile(upsert(read_lino_records(f), r))>>,
     <<"Err", f>>, <<"Err", TruncatedFile>>}

InitRun ==
    /\ now = 0
    /\ alive = [p \in Procs |-> TRUE]
    /\ lock_file = NoLock
    /\ lino_db = NoFile
    /\ pc = [p \in Procs |-> "idle"]
    /\ op = [p \in Procs |-> "none"]
    /\ record = [p \in Procs |-> NoRecord]
    /\ arg = [p \in Procs |-> NoArg]
    /\ start = [p \in Procs |-> 0]
    /\ lock_acquired = [p \in Procs |-> FALSE]
    /\ records = [p \in Procs |-> <<>>]
    /\ stale_records = [p \in Procs |-> <<>>]
    /\ ret = [p \in Procs |-> NoRet]
    /\ calls = 0
    /\ wrote = [p \in Procs |-> FALSE]
    /\ use_links = [p \in Procs |-> FALSE]
    /\ links_db = {}
    /\ clink = [p \in Procs |-> "none"]
    /\ codec = NoCodec
    /\ \E u \in UUIDs :
          run = [NoRun EXCEPT !.pc = "start", !.record = run_record(u)]
    /\ write_image = NoImage
    /\ was_executed = {}
    /\ last_saved = [u \in UUIDs |-> None]
    /\ misbuilt = FALSE

\* the main thread is at that place and no signal has come
MainAt(place) == run.pc = place /\ run.hpc = "none"

\* store.save(&execution_record) is entered, line 804
InitialSave ==
    /\ MainAt("start")
    /\ run' = [run EXCEPT !.pc = "initial_save"]
    /\ lock_file' = held_lock
    /\ UNCHANGED <<now, lino_db>>
    /\ UNCHANGED callers
    /\ UNCHANGED history
    /\ UNCHANGED links
    /\ UNCHANGED codec

\* a run_direct that gives up when the initial save fails
InitialSaved_stops ==
    /\ MainAt("initial_save")
    /\ \E o \in save_outcomes(lino_db, run.record) :
          /\ lino_db' = o[2]
          /\ run' = IF o[1] = "Ok"
                    THEN [run EXCEPT !.initial = o[1], !.pc = "set_current"]
                    ELSE [run EXCEPT !.initial = o[1], !.pc = "exited",
                                     !.exit_code = Some(1)]
    /\ lock_file' = NoLock
    /\ UNCHANGED now
    /\ UNCHANGED callers
    /\ UNCHANGED history
    /\ UNCHANGED links
    /\ UNCHANGED codec

\* the initial save returns, lines 804-818: Err is told in verbose mode and
\* nothing more, Ok goes on to set_current_execution
InitialSaved ==
    /\ MainAt("initial_save")
    /\ \E o \in save_outcomes(lino_db, run.record) :
          /\ lino_db' = o[2]
          /\ run' = [run EXCEPT !.initial = o[1],
                                !.pc = IF o[1] = "Ok" THEN "set_current"
                                       ELSE "spawn"]
    /\ lock_file' = NoLock
    /\ UNCHANGED now
    /\ UNCHANGED callers
    /\ UNCHANGED history
    /\ UNCHANGED links
    /\ UNCHANGED codec

\* set_current_execution, line 104: CURRENT_EXECUTION.lock()
SetCurrentLock ==
    /\ MainAt("set_current")
    /\ run.mutex = "free"
    /\ run' = [run EXCEPT !.pc = "set_current_locked", !.mutex = "main"]
    /\ UNCHANGED <<now, lock_file, lino_db>>
    /\ UNCHANGED callers
    /\ UNCHANGED history
    /\ UNCHANGED links
    /\ UNCHANGED codec

\* line 105: *guard = Some((record, store))
SetCurrentExecution ==
    /\ MainAt("set_current_locked")
    /\ run' = [run EXCEPT !.pc = "set_current_set",
                          !.registered = Some(run.record)]
    /\ UNCHANGED <<now, lock_file, lino_db>>
    /\ UNCHANGED callers
    /\ UNCHANGED history
    /\ UNCHANGED links
    /\ UNCHANGED codec

\* line 106: the guard is dropped
SetCurrentUnlock ==
    /\ MainAt("set_current_set")
    /\ run' = [run EXCEPT !.pc = "spawn", !.mutex = "free"]
    /\ UNCHANGED <<now, lock_file, lino_db>>
    /\ UNCHANGED callers
    /\ UNCHANGED history
    /\ UNCHANGED links
    /\ UNCHANGED codec

\* Command::spawn, lines 845-884: the child runs, or it cannot be started
\* and the process exits with 1
Spawn ==
    /\ MainAt("spawn")
    /\ \E started \in BOOLEAN :
          run' = IF started
                 THEN [run EXCEPT !.pc = "command", !.command = "ran"]
                 ELSE [run EXCEPT !.pc = "exited", !.command = "failed",
                                  !.exit_code = Some(1)]
    /\ UNCHANGED <<now, lock_file, lino_db>>
    /\ UNCHANGED callers
    /\ UNCHANGED history
    /\ UNCHANGED links
    /\ UNCHANGED codec

\* child.wait(), lines 922-930
Wait ==
    /\ MainAt("command")
    /\ \E c \in CommandExitCodes :
          run' = [run EXCEPT !.pc = "completion", !.command_exit = Some(c)]
    /\ UNCHANGED <<now, lock_file, lino_db>>
    /\ UNCHANGED callers
    /\ UNCHANGED history
    /\ UNCHANGED links
    /\ UNCHANGED codec

\* execution_record.complete(exit_code) and store.save entered, lines 971-972
CompletionSave ==
    /\ MainAt("completion")
    /\ run' = [run EXCEPT !.pc = "completion_save",
                          !.record = complete(run.record, run.command_exit[1], now)]
    /\ lock_file' = held_lock
    /\ UNCHANGED <<now, lino_db>>
    /\ UNCHANGED callers
    /\ UNCHANGED history
    /\ UNCHANGED links
    /\ UNCHANGED codec

\* the completion save returns, lines 972-979
CompletionSaved ==
    /\ MainAt("completion_save")
    /\ \E o \in save_outcomes(lino_db, run.record) :
          /\ lino_db' = o[2]
          /\ run' = [run EXCEPT !.completion = o[1], !.pc = "clear_current"]
    /\ lock_file' = NoLock
    /\ UNCHANGED now
    /\ UNCHANGED callers
    /\ UNCHANGED history
    /\ UNCHANGED links
    /\ UNCHANGED codec

\* clear_current_execution, line 111: CURRENT_EXECUTION.lock()
ClearCurrentLock ==
    /\ MainAt("clear_current")
    /\ run.mutex = "free"
    /\ run' = [run EXCEPT !.pc = "clear_current_locked", !.mutex = "main"]
    /\ UNCHANGED <<now, lock_file, lino_db>>
    /\ UNCHANGED callers
    /\ UNCHANGED history
    /\ UNCHANGED links
    /\ UNCHANGED codec

\* a clear_current_execution that leaves the registration where it is
ClearCurrentExecution_keeps ==
    /\ MainAt("clear_current_locked")
    /\ run' = [run EXCEPT !.pc = "exit", !.mutex = "free"]
    /\ UNCHANGED <<now, lock_file, lino_db>>
    /\ UNCHANGED callers
    /\ UNCHANGED history
    /\ UNCHANGED links
    /\ UNCHANGED codec

\* lines 112-113: *guard = None, and the guard is dropped
ClearCurrentExecution ==
    /\ MainAt("clear_current_locked")
    /\ run' = [run EXCEPT !.pc = "exit", !.registered = None, !.mutex = "free"]
    /\ UNCHANGED <<now, lock_file, lino_db>>
    /\ UNCHANGED callers
    /\ UNCHANGED history
    /\ UNCHANGED links
    /\ UNCHANGED codec

\* handle_failure when the code is not 0, and process::exit(exit_code),
\* lines 985-999
ExitRun ==
    /\ MainAt("exit")
    /\ run' = [run EXCEPT !.pc = "exited", !.exit_code = run.command_exit]
    /\ UNCHANGED <<now, lock_file, lino_db>>
    /\ UNCHANGED callers
    /\ UNCHANGED history
    /\ UNCHANGED links
    /\ UNCHANGED codec

\* SIGINT, SIGTERM or SIGHUP is delivered and signal_handler is entered,
\* lines 70-74, wherever the process is; a signal is blocked while its own
\* handler runs, another one is not
Signal(sig) ==
    /\ run.pc \notin {"none", "exited"}
    /\ run.hpc # "stuck"
    /\ run.signals < MaxSignals
    /\ run.hpc = "none" \/ sig # run.sig
    /\ run' = [run EXCEPT !.hpc = "lock", !.sig = sig,
                          !.at_arrival = (run.registered # None),
                          !.signals = run.signals + 1,
                          !.handler_saves = 0, !.marked = None]
    /\ UNCHANGED <<now, lock_file, lino_db>>
    /\ UNCHANGED callers
    /\ UNCHANGED history
    /\ UNCHANGED links
    /\ UNCHANGED codec

\* cleanup_execution_on_signal, lines 85-86: CURRENT_EXECUTION.lock() on the
\* thread that was interrupted.  When that thread, or a handler it was
\* running, holds the mutex, lock() does not return.
HandlerLock ==
    /\ run.hpc = "lock"
    /\ run' = IF run.mutex # "free" THEN [run EXCEPT !.hpc = "stuck"]
              ELSE IF run.registered # None
                   THEN [run EXCEPT !.hpc = "cleanup", !.mutex = "handler"]
                   ELSE [run EXCEPT !.hpc = "exit"]
    /\ UNCHANGED <<now, lock_file, lino_db>>
    /\ UNCHANGED callers
    /\ UNCHANGED history
    /\ UNCHANGED links
    /\ UNCHANGED codec

\* lines 88-95: record.complete(exit_code) and store.save(record).  With the
\* lock file of the interrupted save there and not stale, acquire gives up
\* after LOCK_TIMEOUT_MS and save returns Err.
HandlerSave ==
    /\ run.hpc = "cleanup"
    /\ LET r == complete(run.registered[1], 128 + run.sig, now)
           busy == /\ read_lock_file(lock_file) # None
                   /\ ~is_lock_stale(read_lock_file(lock_file)[1], now, alive)
       IN  /\ run' = [run EXCEPT !.hpc = "saved", !.registered = Some(r),
                                 !.marked = Some(r),
                                 !.handler_saves = run.handler_saves + 1]
           /\ IF busy
              THEN /\ now' = now + LOCK_TIMEOUT_MS
                   /\ UNCHANGED <<lock_file, lino_db>>
              ELSE /\ \E o \in save_outcomes(lino_db, r) : lino_db' = o[2]
                   /\ lock_file' = NoLock
                   /\ UNCHANGED now
    /\ UNCHANGED callers
    /\ UNCHANGED history
    /\ UNCHANGED links
    /\ UNCHANGED codec

\* lines 96-98: *guard = None, and the guard is dropped
HandlerClear ==
    /\ run.hpc = "saved"
    /\ run' = [run EXCEPT !.hpc = "exit", !.registered = None, !.mutex = "free"]
    /\ UNCHANGED <<now, lock_file, lino_db>>
    /\ UNCHANGED callers
    /\ UNCHANGED history
    /\ UNCHANGED links
    /\ UNCHANGED codec

\* line 80: std::process::exit(exit_code)
HandlerExit ==
    /\ run.hpc = "exit"
    /\ run' = [run EXCEPT !.hpc = "done", !.pc = "exited",
                          !.exit_code = Some(128 + run.sig)]
    /\ UNCHANGED <<now, lock_file, lino_db>>
    /\ UNCHANGED callers
    /\ UNCHANGED history
    /\ UNCHANGED links
    /\ UNCHANGED codec

NextRun ==
    \/ InitialSave \/ InitialSaved
    \/ SetCurrentLock \/ SetCurrentExecution \/ SetCurrentUnlock
    \/ Spawn \/ Wait
    \/ CompletionSave \/ CompletionSaved
    \/ ClearCurrentLock \/ ClearCurrentExecution
    \/ ExitRun
    \/ \E sig \in Signals : Signal(sig)
    \/ HandlerLock \/ HandlerSave \/ HandlerClear \/ HandlerExit

SpecRun == InitRun /\ [][NextRun]_vars

\* C26: when SIGINT, SIGTERM or SIGHUP comes while an execution is
\* registered, the handler marks that record executed with exit code
\* 128 + signal number, tries one save, clears the registration, and the
\* process exits with that code.
C26_SignalCompletesTheRecord ==
    run.at_arrival =>
        /\ run.hpc # "stuck"
        /\ run.hpc = "done" =>
              /\ run.exit_code = Some(128 + run.sig)
              /\ run.handler_saves = 1
              /\ run.registered = None
              /\ run.marked # None
              /\ run.marked[1].status = "executed"
              /\ run.marked[1].exit_code = Some(128 + run.sig)

\* C27: a save that fails does not stop the command: after an initial save
\* that returned Err the command is still run and the process ends with the
\* command's exit code, and a completion save that returned Err changes
\* nothing in how the process ends.
C27_FailedSaveDoesNotStopTheCommand ==
    (run.pc = "exited" /\ run.hpc = "none") =>
        /\ run.command # "none"
        /\ run.command = "ran" => run.exit_code = run.command_exit
        /\ run.command = "failed" => run.exit_code = Some(1)

\* the initial save and the completion save both returned Err, the command
\* ran and ended with 1, and so did the process
C27_Witness ==
    /\ run.pc = "exited" /\ run.hpc = "none"
    /\ run.initial = "Err" /\ run.completion = "Err"
    /\ run.command = "ran"
    /\ run.command_exit = Some(1) /\ run.exit_code = Some(1)

\* C28: save(r), called when no other call is in progress, puts r in the
\* place of the record of r.uuid when there is one and at the end otherwise;
\* every record of another uuid is still there, unchanged, in the same
\* order.
C28_SaveReplacesInPlace ==
    [][\A p \in Procs :
          /\ SaveLocked(p) =>
                LET before == Stored
                    after == records'[p]
                    r == record[p]
                    idx == position(before, r.uuid)
                IN  /\ Others(after, r.uuid) = Others(before, r.uuid)
                    /\ IF idx # 0
                       THEN /\ Len(after) = Len(before)
                            /\ \A i \in 1..Len(before) :
                                  after[i] = IF i = idx THEN r ELSE before[i]
                       ELSE after = Append(before, r)
          /\ (op[p] = "save" /\ WriteAll(p)) =>
                /\ ret'[p].res = "Ok"
                /\ Stored' = records[p]]_vars

\* a save has put other values in the place of the first of two records
C28_Witness ==
    \E p \in Procs :
        /\ alive[p] /\ op[p] = "save" /\ pc[p] = "return" /\ ret[p].res = "Ok"
        /\ Len(write_image.before) = 2
        /\ write_image.before[1].uuid = record[p].uuid
        /\ write_image.before[1] # record[p]
        /\ Stored = <<record[p], write_image.before[2]>>

\* C29: a live cleanup_stale rewrites the collection it reads again under
\* the lock, not the one it scanned: the collection it writes has the
\* records of the one read under the lock, uuid by uuid and in that order,
\* those it did not flag unchanged.  So a record saved by another process
\* after the scan is still there, and one deleted after the scan does not
\* come back.
C29_CleanupRewritesWhatItReadsUnderTheLock ==
    [][\A p \in Procs :
          /\ CleanupLocked(p) =>
                LET current == Stored
                    after == records'[p]
                IN  /\ Len(after) = Len(current)
                    /\ \A i \in 1..Len(current) :
                          /\ after[i].uuid = current[i].uuid
                          /\ current[i].uuid \notin Uuids(stale_records[p])
                                => after[i] = current[i]
          /\ (op[p] = "cleanup_stale" /\ WriteAll(p)) => Stored' = records[p]]_vars

\* a cleanup_stale has written the collection, and the record it had
\* flagged in its scan, deleted by the other process before the cleanup read
\* the collection again, is not in it
C29_Witness ==
    \E p, q \in Procs :
        /\ p # q
        /\ alive[p] /\ op[p] = "cleanup_stale" /\ pc[p] = "return"
        /\ wrote[p] /\ ret[p].errors = <<>>
        /\ ret[p].cleaned = 0
        /\ op[q] = "delete" /\ pc[q] = "idle" /\ ret[q].res = "Ok(true)"
        /\ arg[q].uuid \in Uuids(stale_records[p])
        /\ arg[q].uuid \notin Uuids(Stored)

\* C30: the lock file of a holder that is alive is judged stale by another
\* process only when it is older than LOCK_STALE_MS (60 s), and that process
\* then removes it; so a state with two live processes that both take
\* themselves for the holder of the lock can be reached.
C30_LiveHolderLosesLockAfterStaleTime ==
    [][\A p \in Procs :
          /\ (AcquireCheck(p) /\ alive[lock_file.pid] /\ lock_file.pid # p)
                => now - lock_file.timestamp > LOCK_STALE_MS
          /\ AcquireRemove(p) => ~lock_file'.exists]_vars

\* two live processes are both inside their locked section: the one whose
\* lock file, more than LOCK_STALE_MS old, the other has removed, and the
\* other, whose lock file is there now
C30_Witness ==
    \E p, q \in Procs :
        /\ p # q /\ alive[p] /\ alive[q]
        /\ lock_acquired[p] /\ lock_acquired[q]
        /\ pc[p] \in {"locked", "write_open", "write_data"}
        /\ pc[q] \in {"locked", "write_open", "write_data"}
        /\ lock_file.exists /\ lock_file.written /\ lock_file.pid = q
        /\ lock_file.timestamp > LOCK_STALE_MS

(***************************************************************************)
(* The scan of cleanup_stale, record by record.                             *)
(***************************************************************************)
\* age_ms <= max_age_ms, with max_age_ms the u64 the caller passed
at_most(age_ms, max_age_ms) == max_age_ms.from_top \/ age_ms <= max_age_ms.n

\* C31: the scan of cleanup_stale never flags a record stored as executed,
\* and never flags an executing record whose age is at most max_age_ms and
\* whose owner is alive or cannot be probed (other platform, or no pid).
C31_ScanSparesExecutedAndFresh ==
    [][\A o \in ScanInputs :
          CleanupStale(Scanner, o) =>
            \A i \in 1..Len(Stored) :
               LET r == Stored[i] IN
               /\ r.status = "executed" => r \notin Range(Found(Scanner))
               /\ (/\ r.status = "executing"
                   /\ at_most(now - r.start_time, max_age_of(o))
                   /\ NotFoundDead(r))
                  => r \notin Range(Found(Scanner))]_vars

(***************************************************************************)
(* The reads next to a writer: one process saves, step by step, while the   *)
(* other makes the calls that read: get, get_all, get_by_status,            *)
(* get_recent, get_stats and cleanup_stale as a dry run.  The store is      *)
(* empty or holds one or two records already.                               *)
(***************************************************************************)
\* get_by_status that goes for the lock as a mutating call does
GetByStatus_taking_lock(p, status) ==
    /\ Begin(p, "get_by_status", NoArg)
    /\ pc' = [pc EXCEPT ![p] = "acquire_first"]
    /\ start' = [start EXCEPT ![p] = now]
    /\ ret' = [ret EXCEPT ![p] = NoRet]
    /\ UNCHANGED <<now, alive, lock_file, lino_db, record,
                   lock_acquired, records, stale_records>>
    /\ UNCHANGED history
    /\ UNCHANGED links
    /\ UNCHANGED codec
    /\ UNCHANGED run

\* get_by_status(status), lines 549-554
get_by_status(f, status) ==
    LET recs == read_lino_records(f) IN
    filter(recs, {r \in Range(recs) : r.status = status})

GetByStatus(p, status) ==
    /\ Begin(p, "get_by_status", NoArg)
    /\ ret' = [ret EXCEPT ![p] =
                 RetRecs("get_by_status", get_by_status(lino_db, status))]
    /\ UNCHANGED <<now, alive, lock_file, lino_db, pc, record, start,
                   lock_acquired, records, stale_records>>
    /\ UNCHANGED history
    /\ UNCHANGED links
    /\ UNCHANGED codec
    /\ UNCHANGED run

Statuses == {"executing", "executed"}

\* the reader and the writer
Reader == Scanner

Writer == Owner

DryRunInputs == {o \in ScanInputs : o.dry_run}

ReadStores ==
    LET a == [new(Writer, 0) EXCEPT !.uuid = "A", !.pid = Some(Writer)]
        b == complete([new(Writer, 0) EXCEPT !.uuid = "B", !.pid = Some(Writer)],
                      0, 0)
    IN  {<<>>, <<a>>, <<b, a>>}

InitRead ==
    /\ now = 2 * LOCK_TIMEOUT_MS
    /\ alive = [p \in Procs |-> TRUE]
    /\ lock_file = NoLock
    /\ \E recs \in ReadStores :
          /\ lino_db = IF recs = <<>> THEN NoFile ELSE FullFile(recs)
          /\ last_saved = [u \in UUIDs |->
                             IF u \in Uuids(recs)
                             THEN Some(recs[position(recs, u)]) ELSE None]
          /\ was_executed = {u \in Uuids(recs) :
                               recs[position(recs, u)].status = "executed"}
    /\ pc = [p \in Procs |-> "idle"]
    /\ op = [p \in Procs |-> "none"]
    /\ record = [p \in Procs |-> NoRecord]
    /\ arg = [p \in Procs |-> NoArg]
    /\ start = [p \in Procs |-> 0]
    /\ lock_acquired = [p \in Procs |-> FALSE]
    /\ records = [p \in Procs |-> <<>>]
    /\ stale_records = [p \in Procs |-> <<>>]
    /\ ret = [p \in Procs |-> NoRet]
    /\ calls = 0
    /\ wrote = [p \in Procs |-> FALSE]
    /\ use_links = [p \in Procs |-> FALSE]
    /\ links_db = {}
    /\ clink = [p \in Procs |-> "none"]
    /\ codec = NoCodec
    /\ run = NoRun
    /\ write_image = NoImage
    /\ misbuilt = FALSE

NextRead ==
    \/ \E u \in UUIDs : Get(Reader, u)
    \/ GetAll(Reader)
    \/ \E st \in Statuses : GetByStatus(Reader, st)
    \/ \E limit \in RecentLimits : GetRecent(Reader, limit)
    \/ GetStats(Reader)
    \/ \E o \in DryRunInputs : CleanupStale(Reader, o)
    \/ \E r \in SaveInputs(Writer) : Save(Writer, r)
    \/ AcquireTry(Writer)
    \/ AcquireWrite(Writer)
    \/ SaveLocked(Writer)
    \/ WriteOpen(Writer)
    \/ WriteAll(Writer)
    \/ Return(Writer)

SpecRead == InitRead /\ [][NextRead]_vars

\* a call of p that reads
Reads(p) ==
    \/ \E u \in UUIDs : Get(p, u)
    \/ GetAll(p)
    \/ \E st \in Statuses : GetByStatus(p, st)
    \/ \E limit \in RecentLimits : GetRecent(p, limit)
    \/ GetStats(p)
    \/ \E o \in DryRunInputs : CleanupStale(p, o)

\* C32: get, get_all, get_by_status, get_recent, get_stats and a dry-run
\* cleanup_stale take no lock and change nothing: the lock file and the
\* primary file are after the call what they were before it, the call never
\* enters acquire, and it returns in the same step, also while the other
\* process holds the lock.
C32_ReadsTakeNoLockAndWriteNothing ==
    [][Reads(Reader) =>
          /\ lock_file' = lock_file
          /\ lino_db' = lino_db
          /\ lock_acquired' = lock_acquired
          /\ pc'[Reader] = "idle"
          /\ ret'[Reader] # NoRet]_vars

\* the writer holds the lock and is half way through its rewrite, and
\* get_all has returned the empty file of that moment from a store that has
\* held records from the start
C32_Witness ==
    /\ lock_acquired[Writer] /\ lock_file # NoLock /\ lock_file.pid = Writer
    /\ pc[Writer] # "idle" /\ wrote[Writer]
    /\ lino_db = TruncatedFile
    /\ \A u \in UUIDs : last_saved[u] # None
    /\ op[Reader] = "get_all" /\ pc[Reader] = "idle"
    /\ ret[Reader] = RetRecs("get_all", <<>>)

(***************************************************************************)
(* The registration of the running execution and the signal handler.        *)
(***************************************************************************)
\* the main thread has returned from clear_current_execution and a signal
\* has come after that
SignalAfterClear(r) == r.pc = "exit" /\ r.hpc # "none"

\* C33: a signal that comes after clear_current_execution has returned
\* makes the handler try no save and leaves the lock file and the primary
\* file as they are; and the handler saves a registered record at most
\* once: the record it saves has not been marked by a handler before.
C33_NoSaveOnceUnregistered ==
    [][/\ (SignalAfterClear(run) \/ SignalAfterClear(run')) =>
             /\ lino_db' = lino_db
             /\ lock_file' = lock_file
             /\ run'.handler_saves = 0
             /\ run'.marked = None
             /\ run'.registered = None
       /\ HandlerSave =>
             /\ run.handler_saves = 0
             /\ run.registered[1].status = "executing"
             /\ run'.handler_saves = 1]_vars

\* the completion was saved and the registration cleared, a signal came
\* then, and its handler has passed the mutex and is about to exit with no
\* save made; the file holds the record of the normal completion
C33_Witness ==
    /\ run.pc = "exit" /\ run.hpc = "exit" /\ run.signals = 1
    /\ run.completion = "Ok"
    /\ run.registered = None /\ run.handler_saves = 0
    /\ lino_db = FullFile(<<run.record>>)
    /\ run.record.exit_code = run.command_exit

\* C34: once the completion save has returned Ok, the stored record of this
\* execution keeps the exit code of the command and the end time of the
\* normal completion, whatever signal comes before clear_current_execution.
C34_CompletedExactlyOnce ==
    run.completion = "Ok" =>
        LET recs == read_lino_records(lino_db)
            idx == position(recs, run.record.uuid)
        IN  idx # 0 =>
              /\ recs[idx].exit_code = run.command_exit
              /\ recs[idx].end_time = run.record.end_time

\* C35: a handler that has been entered is never left waiting for ever:
\* not on the CURRENT_EXECUTION mutex, wherever the signal found the main
\* thread, and not on the lock file of a save of its own process.
C35_HandlerFinishes == run.hpc # "stuck"

(***************************************************************************)
(* Whose lock file is deleted, and when.                                    *)
(***************************************************************************)
\* C36: release, run by Drop on return, deletes the lock file only when it
\* is the file this manager created: when the file at the path was created
\* by another process, it is still there after the return.
C36_ReleaseDeletesOwnLockOnly ==
    [][\A p \in Procs :
          (Return(p) /\ lock_file.exists /\ lock_file.owner # p)
          => lock_file' = lock_file]_vars

\* C37: the file acquire deletes is stale at the moment it is deleted: a
\* lock file that reads as written less than LOCK_STALE_MS ago by a process
\* that is alive is not removed by the acquire of another process.
C37_AcquireDeletesStaleLockOnly ==
    [][\A p \in Procs :
          (AcquireRemove(p) /\ read_lock_file(lock_file) # None)
          => is_lock_stale(read_lock_file(lock_file)[1], now, alive)]_vars

\* the lock file is there and does not parse
Unparseable(f) == f.exists /\ read_lock_file(f) = None

\* C38: while the lock file is there and does not parse, no acquire judges
\* it stale, none deletes it, and none creates a lock of its own: acquire
\* goes round its loop until the timeout and returns false.
C38_UnparseableLockStays ==
    [][Unparseable(lock_file) =>
          \A p \in Procs :
             /\ ~AcquireCheck(p)
             /\ ~AcquireTry(p)
             /\ ~AcquireRemove(p)
             /\ AcquireCreate(p) => pc'[p] = "acquire"
             /\ (AcquireBusy(p) \/ AcquireTimeout(p)) => lock_file' = lock_file]_vars

(***************************************************************************)
(* What a live cleanup_stale reports as cleaned.                            *)
(***************************************************************************)
\* the call of p comes to its end with this step
Ends(p) == pc[p] \notin {"idle", "return"} /\ pc'[p] \in {"idle", "return"}

\* C39: in a live cleanup_stale, cleaned is the number of records that the
\* rewrite turns from executing into executed, and it is 0 when the call
\* ends with an error: the lock was not acquired, or the primary file could
\* not be rewritten.
C39_CleanedCountsWhatWasChanged ==
    [][\A p \in Procs :
          /\ CleanupLocked(p) =>
                ret'[p].cleaned =
                  Cardinality({i \in 1..Len(Stored) :
                                 /\ Stored[i].status = "executing"
                                 /\ records'[p][i].status = "executed"})
          /\ (op[p] = "cleanup_stale" /\ Ends(p) /\ ret'[p].errors # <<>>)
             => ret'[p].cleaned = 0]_vars

(***************************************************************************)
(* A token through escape_reference and back through parse_id.              *)
(***************************************************************************)
\* C40: for every token that is not empty, parse_id reads the text that
\* escape_reference made of it to its end, with no error, and returns the
\* token.
C40_TokenRoundTrip ==
    (codec.given = "token" /\ codec.step = "parsed" /\ codec.text # <<>>)
        => codec.value = <<NoError, codec.text, Len(codec.result) + 1>>

====
